---- MODULE Spec2Model ----
(***************************************************************************)
(* Model of the lattice assembly pipeline (src/src/Lattice.py, Cell.py,    *)
(* Beam.py, Point.py).                                                     *)
(*                                                                         *)
(* Lengths and coordinates are fixed-point integers: Unit steps make the   *)
(* length 1.0 and four steps make 1e-7, the value that                     *)
(* functionPenalizationLzone returns for an angle above 170 degrees.  A    *)
(* single step stands for the distance from a float to the next float, so  *)
(* that a value that is one rounding error away from a grid coordinate is  *)
(* different from it, as it is for Point.__eq__.  Python objects (Point,   *)
(* Beam) live                                                              *)
(* in heaps: pointObj and beamObj are sequences of records and a reference *)
(* to an object is its position in the heap.  Two different positions can  *)
(* hold points with the same coordinates, as two Python objects can.       *)
(* The value None of an index field is the integer None; a Point.tag of    *)
(* None is the empty list (the code tests both with "if p.tag").           *)
(***************************************************************************)
EXTENDS Integers, Sequences, FiniteSets, TLC

VARIABLES pc, cfg, cells, pointObj, beamObj, boundaryBox, occupancy_matrix,
          maxIndexBoundary, freeDOF, arg, ret

vars == <<pc, cfg, cells, pointObj, beamObj, boundaryBox, occupancy_matrix,
          maxIndexBoundary, freeDOF, arg, ret>>

None == -1

\* steps per unit of length
Unit == 40000000

\* Beam.functionPenalizationLzone: the length 1e-7 returned when angle > 170
LzoneDegenerate == 4

\* the distance from a float to the next one
Ulp == 1

\* ---------------------------------------------------------------- bounds
MaxTagCoord == 2
MaxBeamCoord == 1

\* ------------------------------------------------------------- Point.py
\* Point.__init__ (nodeUncertaintySD = 0)
Point(x, y, z) ==
    [x |-> x, y |-> y, z |-> z, index |-> None, tag |-> <<>>, localTag |-> <<>>,
     indexBoundary |-> None,
     displacementValue |-> <<0, 0, 0, 0, 0, 0>>,
     appliedForce |-> <<0, 0, 0, 0, 0, 0>>,
     reactionForceValue |-> <<0, 0, 0, 0, 0, 0>>,
     fixedDOF |-> <<0, 0, 0, 0, 0, 0>>,
     globalFreeDOFIndex |-> <<None, None, None, None, None, None>>,
     nodeMod |-> FALSE]

\* Point.__eq__
PointEq(p, q) == p.x = q.x /\ p.y = q.y /\ p.z = q.z

\* Point.__hash__ : hash of the coordinate tuple
PointHash(p) == <<p.x, p.y, p.z>>

\* Point.__sub__
PointSub(p, q) == <<p.x - q.x, p.y - q.y, p.z - q.z>>

\* tagFace with the id of the xMin face given to the xMax face too
tagFaceSameId(p, b) ==
    LET xMin == b[1] xMax == b[2] yMin == b[3] yMax == b[4] zMin == b[5] zMax == b[6]
        inX == xMin < p.x /\ p.x < xMax
        inY == yMin < p.y /\ p.y < yMax
        inZ == zMin < p.z /\ p.z < zMax
    IN  IF p.x = xMin /\ inY /\ inZ THEN <<12>>
        ELSE IF p.x = xMax /\ inY /\ inZ THEN <<12>>
        ELSE IF inX /\ p.y = yMin /\ inZ THEN <<11>>
        ELSE IF inX /\ p.y = yMax /\ inZ THEN <<14>>
        ELSE IF inX /\ inY /\ p.z = zMin THEN <<10>>
        ELSE IF inX /\ inY /\ p.z = zMax THEN <<15>>
        ELSE <<>>

\* Point.tagPoint, the "Faces" if/elif chain
tagFace(p, b) ==
    LET xMin == b[1] xMax == b[2] yMin == b[3] yMax == b[4] zMin == b[5] zMax == b[6]
        inX == xMin < p.x /\ p.x < xMax
        inY == yMin < p.y /\ p.y < yMax
        inZ == zMin < p.z /\ p.z < zMax
    IN  IF p.x = xMin /\ inY /\ inZ THEN <<12>>
        ELSE IF p.x = xMax /\ inY /\ inZ THEN <<13>>
        ELSE IF inX /\ p.y = yMin /\ inZ THEN <<11>>
        ELSE IF inX /\ p.y = yMax /\ inZ THEN <<14>>
        ELSE IF inX /\ inY /\ p.z = zMin THEN <<10>>
        ELSE IF inX /\ inY /\ p.z = zMax THEN <<15>>
        ELSE <<>>

\* tagEdge with the interior tests made non-strict
tagEdgeNonStrict(p, b) ==
    LET xMin == b[1] xMax == b[2] yMin == b[3] yMax == b[4] zMin == b[5] zMax == b[6]
        inX == xMin <= p.x /\ p.x <= xMax
        inY == yMin <= p.y /\ p.y <= yMax
        inZ == zMin <= p.z /\ p.z <= zMax
    IN  IF p.x = xMin /\ p.y = yMin /\ inZ THEN <<102>>
        ELSE IF inX /\ p.y = yMin /\ p.z = zMin THEN <<100>>
        ELSE IF p.x = xMax /\ p.y = yMin /\ inZ THEN <<104>>
        ELSE IF inX /\ p.y = yMin /\ p.z = zMax THEN <<108>>
        ELSE IF p.x = xMin /\ inY /\ p.z = zMin THEN <<101>>
        ELSE IF p.x = xMax /\ inY /\ p.z = zMin THEN <<103>>
        ELSE IF p.x = xMin /\ p.y = yMax /\ inZ THEN <<106>>
        ELSE IF inX /\ p.y = yMax /\ p.z = zMin THEN <<105>>
        ELSE IF p.x = xMax /\ p.y = yMax /\ inZ THEN <<107>>
        ELSE IF inX /\ p.y = yMax /\ p.z = zMax THEN <<111>>
        ELSE IF p.x = xMin /\ inY /\ p.z = zMax THEN <<109>>
        ELSE IF p.x = xMax /\ inY /\ p.z = zMax THEN <<110>>
        ELSE <<>>

\* Point.tagPoint, the "Edge" if/elif chain
tagEdge(p, b) ==
    LET xMin == b[1] xMax == b[2] yMin == b[3] yMax == b[4] zMin == b[5] zMax == b[6]
        inX == xMin < p.x /\ p.x < xMax
        inY == yMin < p.y /\ p.y < yMax
        inZ == zMin < p.z /\ p.z < zMax
    IN  IF p.x = xMin /\ p.y = yMin /\ inZ THEN <<102>>
        ELSE IF inX /\ p.y = yMin /\ p.z = zMin THEN <<100>>
        ELSE IF p.x = xMax /\ p.y = yMin /\ inZ THEN <<104>>
        ELSE IF inX /\ p.y = yMin /\ p.z = zMax THEN <<108>>
        ELSE IF p.x = xMin /\ inY /\ p.z = zMin THEN <<101>>
        ELSE IF p.x = xMax /\ inY /\ p.z = zMin THEN <<103>>
        ELSE IF p.x = xMin /\ p.y = yMax /\ inZ THEN <<106>>
        ELSE IF inX /\ p.y = yMax /\ p.z = zMin THEN <<105>>
        ELSE IF p.x = xMax /\ p.y = yMax /\ inZ THEN <<107>>
        ELSE IF inX /\ p.y = yMax /\ p.z = zMax THEN <<111>>
        ELSE IF p.x = xMin /\ inY /\ p.z = zMax THEN <<109>>
        ELSE IF p.x = xMax /\ inY /\ p.z = zMax THEN <<110>>
        ELSE <<>>

\* Point.tagPoint, the "Corner" if/elif chain
tagCorner(p, b) ==
    LET xMin == b[1] xMax == b[2] yMin == b[3] yMax == b[4] zMin == b[5] zMax == b[6]
    IN  IF p.x = xMin /\ p.y = yMin /\ p.z = zMin THEN <<1000>>
        ELSE IF p.x = xMax /\ p.y = yMin /\ p.z = zMin THEN <<1001>>
        ELSE IF p.x = xMin /\ p.y = yMax /\ p.z = zMin THEN <<1002>>
        ELSE IF p.x = xMax /\ p.y = yMax /\ p.z = zMin THEN <<1003>>
        ELSE IF p.x = xMin /\ p.y = yMin /\ p.z = zMax THEN <<1004>>
        ELSE IF p.x = xMax /\ p.y = yMin /\ p.z = zMax THEN <<1005>>
        ELSE IF p.x = xMin /\ p.y = yMax /\ p.z = zMax THEN <<1006>>
        ELSE IF p.x = xMax /\ p.y = yMax /\ p.z = zMax THEN <<1007>>
        ELSE <<>>

\* Point.tagPoint: the three chains append to one list
tagPoint(p, boundaryBoxDomain) ==
    tagFace(p, boundaryBoxDomain) \o tagEdge(p, boundaryBoxDomain)
        \o tagCorner(p, boundaryBoxDomain)

\* -------------------------------------------------------------- Beam.py
\* Beam.getLength for the axis-aligned beams of the modelled templates:
\* sqrt(dx^2+dy^2+dz^2) with one non-zero component, round(., 4) rounds to a
\* multiple of 0.0001, that is of Unit / 10000 steps
Abs(a) == IF a < 0 THEN -a ELSE a

SeqRange(s) == {s[i] : i \in DOMAIN s}

Round4(t) == ((t + Unit \div 20000) \div (Unit \div 10000)) * (Unit \div 10000)

\* the integer part of the square root of n >= 1, from the estimate x
RECURSIVE isqrt(_, _)
isqrt(n, x) == IF (x + n \div x) \div 2 >= x THEN x ELSE isqrt(n, (x + n \div x) \div 2)

\* the integer nearest to the square root of n
sqrtRound(n) ==
    IF n = 0 THEN 0
    ELSE IF n > isqrt(n, n) * (isqrt(n, n) + 1) THEN isqrt(n, n) + 1 ELSE isqrt(n, n)

\* the square of a length in steps of 0.0001
square4(d) == (Round4(Abs(d)) \div (Unit \div 10000)) * (Round4(Abs(d)) \div (Unit \div 10000))

\* Beam.getLength: round(sqrt(dx^2 + dy^2 + dz^2), 4).  A beam along an axis
\* (the other components below 0.00005) has the length of its components ;
\* the other beams of the model join points whose coordinates are multiples
\* of 0.0001, and the square root is taken in these steps
getLength(p1, p2) ==
    IF Cardinality({d \in 1..3 : Round4(Abs(PointSub(p2, p1)[d])) # 0}) <= 1
    THEN Round4(Abs(p2.x - p1.x) + Abs(p2.y - p1.y) + Abs(p2.z - p1.z))
    ELSE sqrtRound(square4(p2.x - p1.x) + square4(p2.y - p1.y) + square4(p2.z - p1.z))
         * (Unit \div 10000)

\* Beam.__init__ ; point1/point2 are references into pointObj
Beam(point1, point2, Radius, Material, Type, length) ==
    [point1 |-> point1, point2 |-> point2, radius |-> Radius, material |-> Material,
     type |-> Type, index |-> None, angle1 |-> <<>>, angle2 |-> <<>>,
     length |-> length, modBeam |-> FALSE]

\* Beam.__eq__ on two beams given by the values of their end points
BeamEq(a1, a2, b1, b2) == PointEq(a1, b1) /\ PointEq(a2, b2)

\* Beam.__hash__ : hash((point1, point2)), a hash of the ordered pair
BeamHash(a1, a2) == <<PointHash(a1), PointHash(a2)>>

\* a Python dict / set keyed by objects: an entry is replaced when a key
\* with equal hash and __eq__ is inserted; here the number of entries after
\* inserting Beam(p1,p2) and then Beam(q1,q2) into an empty set
SetOfTwoBeams(p1, p2, q1, q2) ==
    IF BeamHash(p1, p2) = BeamHash(q1, q2) /\ BeamEq(p1, p2, q1, q2) THEN 1 ELSE 2

Dummy ==
    /\ cfg = <<>>
    /\ cells = <<>>
    /\ pointObj = <<>>
    /\ beamObj = <<>>
    /\ boundaryBox = <<>>
    /\ occupancy_matrix = None
    /\ maxIndexBoundary = None
    /\ freeDOF = None

latticeVars == <<cfg, cells, pointObj, beamObj, boundaryBox, occupancy_matrix,
                 maxIndexBoundary, freeDOF>>

\* ------------------------------------------- tagPoint as a pure function
TagCoords == 0..MaxTagCoord

InitTag ==
    /\ Dummy
    /\ pc = "tagPoint"
    /\ \E x \in TagCoords, y \in TagCoords, z \in TagCoords,
          x0 \in TagCoords, x1 \in TagCoords, y0 \in TagCoords, y1 \in TagCoords,
          z0 \in TagCoords, z1 \in TagCoords :
          arg = [point |-> Point(x, y, z), box |-> <<x0, x1, y0, y1, z0, z1>>]
    /\ ret = <<>>

CallTagPoint ==
    /\ pc = "tagPoint"
    /\ ret' = [tag |-> tagPoint(arg.point, arg.box), point |-> arg.point]
    /\ pc' = "tagged"
    /\ UNCHANGED <<arg, latticeVars>>

NextTag == CallTagPoint

SpecTag == InitTag /\ [][NextTag]_vars

\* ----------------------------------------- Beam identity as a pure function
BeamCoords == 0..MaxBeamCoord

InitBeam ==
    /\ Dummy
    /\ pc = "beamEq"
    /\ \E x1 \in BeamCoords, y1 \in BeamCoords, z1 \in BeamCoords,
          x2 \in BeamCoords, y2 \in BeamCoords, z2 \in BeamCoords :
          arg = [p1 |-> Point(x1, y1, z1), p2 |-> Point(x2, y2, z2)]
    /\ ret = <<>>

\* Beam(p1, p2) compared with Beam(p2, p1), and both put in one set
CallBeamEq ==
    /\ pc = "beamEq"
    /\ ret' = [eq |-> BeamEq(arg.p1, arg.p2, arg.p2, arg.p1),
               sameHash |-> BeamHash(arg.p1, arg.p2) = BeamHash(arg.p2, arg.p1),
               entries |-> SetOfTwoBeams(arg.p1, arg.p2, arg.p2, arg.p1)]
    /\ pc' = "compared"
    /\ UNCHANGED <<arg, latticeVars>>

NextBeam == CallBeamEq

SpecBeam == InitBeam /\ [][NextBeam]_vars

\* ------------------------------ the preconditioner as a pure function
\* bounds: free DOFs of the lattice, boundary DOFs of a cell, cells
MaxSchurDOF == 2
MaxCellDOF == 2
MaxSchurCells == 2

\* the entries of the matrices Sref of the model
SchurValues == {-1, 0, 1}

\* the matrices of r rows and c columns with entries in V, as sequences of rows
Matrices(r, c, V) == [1..r -> [1..c -> V]]

RECURSIVE SumTo(_, _)
SumTo(f, k) == IF k = 0 THEN 0 ELSE f[k] + SumTo(f, k - 1)

\* matrix.transpose()
transpose(A) == [j \in DOMAIN A[1] |-> [i \in DOMAIN A |-> A[i][j]]]

\* A @ B
matmul(A, B) ==
    [i \in DOMAIN A |->
        [j \in DOMAIN B[1] |-> SumTo([k \in DOMAIN B |-> A[i][k] * B[k][j]], Len(B))]]

\* Cell.buildPreconditioner without the transposition, where the product is
\* defined
buildPreconditionerNotTransposed(matB, SchurMatrix) ==
    IF Len(matB) = Len(matB[1])
    THEN matmul(matmul(matB, SchurMatrix), matB)
    ELSE matmul(matmul(matB, SchurMatrix), transpose(matB))

\* Cell.buildPreconditioner
buildPreconditioner(matB, SchurMatrix) ==
    matmul(matmul(matB, SchurMatrix), transpose(matB))

\* the determinant, by expansion along the first row
RECURSIVE det(_)
det(A) ==
    IF Len(A) = 1 THEN A[1][1]
    ELSE SumTo([j \in DOMAIN A |->
                   (IF j % 2 = 1 THEN 1 ELSE -1) * A[1][j]
                   * det([i \in 1..(Len(A) - 1) |->
                            [k \in 1..(Len(A) - 1) |->
                                A[i + 1][IF k < j THEN k ELSE k + 1]]])],
               Len(A))

\* np.linalg.cond(A) > 1e15 on the matrices of the model, of small integers:
\* the condition number of a singular matrix is infinite or of the order of
\* 1e16, that of the others is small
condExceeds(A) == det(A) = 0

\* buildLUSchurComplement without the pseudo-inverse: splu for every matrix
factorizeLUOnly(A) ==
    IF det(A) = 0
    THEN [raised |-> TRUE, LUSchurComplement |-> None, inverseSchurComplement |-> None,
          printed |-> \E i \in DOMAIN A : SumTo(A[i], Len(A[i])) = 0, condExceeds |-> condExceeds(A)]
    ELSE [raised |-> FALSE, LUSchurComplement |-> 1, inverseSchurComplement |-> None,
          printed |-> \E i \in DOMAIN A : SumTo(A[i], Len(A[i])) = 0, condExceeds |-> condExceeds(A)]

\* buildLUSchurComplement from the warning on: the returned pair, 1 for a
\* factor object ; printed when np.any(A.sum(axis=1) == 0) ; splu raises
\* RuntimeError on a singular matrix
factorize(A) ==
    IF condExceeds(A)
    THEN [raised |-> FALSE, LUSchurComplement |-> None, inverseSchurComplement |-> 1,
          printed |-> \E i \in DOMAIN A : SumTo(A[i], Len(A[i])) = 0, condExceeds |-> TRUE]
    ELSE IF det(A) = 0
    THEN [raised |-> TRUE, LUSchurComplement |-> None, inverseSchurComplement |-> None,
          printed |-> \E i \in DOMAIN A : SumTo(A[i], Len(A[i])) = 0, condExceeds |-> FALSE]
    ELSE [raised |-> FALSE, LUSchurComplement |-> 1, inverseSchurComplement |-> None,
          printed |-> \E i \in DOMAIN A : SumTo(A[i], Len(A[i])) = 0, condExceeds |-> FALSE]

\* buildLUSchurComplement after buildCouplingOperatorForEachCells:
\* globalSchurComplement = coo_matrix((self.freeDOF, self.freeDOF))
InitSchur ==
    /\ Dummy
    /\ pc = "buildPreconditioner"
    /\ \E n \in 1..MaxSchurDOF :
          arg = [freeDOF |-> n, cells |-> 0, symmetric |-> TRUE,
                 globalSchurComplement |-> [i \in 1..n |-> [j \in 1..n |-> 0]]]
    /\ ret = <<>>

\* the loop body of buildLUSchurComplement for one more cell, with the
\* coupling operator matB (freeDOF rows, one column for each boundary DOF of
\* the cell) and the matrix Sref of the cell
addPreconditioner ==
    /\ pc = "buildPreconditioner"
    /\ arg.cells < MaxSchurCells
    /\ \E m \in 1..MaxCellDOF :
          \E matB \in Matrices(arg.freeDOF, m, {0, 1}),
             schurComplementMatrix \in Matrices(m, m, SchurValues) :
             arg' = [freeDOF |-> arg.freeDOF,
                     cells |-> arg.cells + 1,
                     symmetric |-> arg.symmetric /\ schurComplementMatrix
                                                       = transpose(schurComplementMatrix),
                     globalSchurComplement |->
                        [i \in 1..arg.freeDOF |-> [j \in 1..arg.freeDOF |->
                            arg.globalSchurComplement[i][j]
                            + buildPreconditioner(matB, schurComplementMatrix)[i][j]]]]
    /\ UNCHANGED <<pc, ret, latticeVars>>

\* buildLUSchurComplement from the end of the loop to the return
factorizePreconditioner ==
    /\ pc = "buildPreconditioner"
    /\ arg.cells >= 1
    /\ \E r \in {factorize(arg.globalSchurComplement)} :
          /\ ret' = r
          /\ pc' = IF r.raised THEN "raised" ELSE "returned"
    /\ UNCHANGED <<arg, latticeVars>>

NextSchur ==
    \/ addPreconditioner
    \/ factorizePreconditioner

SpecSchur == InitSchur /\ [][NextSchur]_vars

\* ====================================================== the Lattice pipeline
\* bounds of the constructor arguments
MaxNumCellsX == 2
MaxNumCellsY == 2
MaxNumCellsZ == 1
MaxCellSize == 2
MaxCells == 4

\* ----------------------------------------------------- Geometry_Lattice.py
\* templates in half units (0, 1, 2 for 0.0, 0.5, 1.0)
Cubic ==
    << <<0, 0, 0, 0, 0, 2>>, <<2, 0, 0, 2, 0, 2>>, <<0, 2, 0, 0, 2, 2>>,
       <<2, 2, 0, 2, 2, 2>>, <<0, 0, 0, 2, 0, 0>>, <<0, 0, 0, 0, 2, 0>>,
       <<2, 2, 0, 0, 2, 0>>, <<2, 2, 0, 2, 0, 0>>, <<0, 0, 2, 2, 0, 2>>,
       <<0, 0, 2, 0, 2, 2>>, <<2, 2, 2, 0, 2, 2>>, <<2, 2, 2, 2, 0, 2>> >>

CubicV2 ==
    << <<1, 0, 1, 1, 1, 1>>, <<0, 1, 1, 1, 1, 1>>, <<1, 2, 1, 1, 1, 1>>,
       <<2, 1, 1, 1, 1, 1>>, <<1, 1, 0, 1, 1, 1>>, <<1, 1, 2, 1, 1, 1>> >>

\* GEOMETRY_DATA["CubicV4"]
CubicV4 ==
    << <<1, 0, 0, 1, 1, 0>>, <<0, 1, 0, 1, 1, 0>>, <<1, 2, 0, 1, 1, 0>>,
       <<2, 1, 0, 1, 1, 0>>, <<1, 0, 2, 1, 1, 2>>, <<0, 1, 2, 1, 1, 2>>,
       <<1, 2, 2, 1, 1, 2>>, <<2, 1, 2, 1, 1, 2>>, <<1, 1, 0, 1, 1, 2>> >>

\* the template ids of the model: the templates whose beams are all parallel
\* to an axis
GeomTypes == {5, 9}

\* GEOMETRY_DATA["BCC"]
BCC ==
    << <<0, 0, 0, 1, 1, 1>>, <<1, 1, 1, 2, 2, 2>>, <<1, 1, 1, 2, 2, 0>>,
       <<1, 1, 1, 0, 0, 2>>, <<1, 1, 1, 0, 2, 0>>, <<1, 1, 1, 0, 2, 2>>,
       <<2, 0, 2, 1, 1, 1>>, <<1, 1, 1, 2, 0, 0>> >>

\* the largest key of LATTICE_GEOMETRIES, whose keys are 0..19
LastGeometryKey == 19

\* Lattice_geometry for the ids 0, 5, 9 and the ids that are no key of
\* LATTICE_GEOMETRIES: LATTICE_GEOMETRIES.get(LatticeGeometry, "BCC")
Lattice_geometry(LatticeGeometry) ==
    CASE LatticeGeometry = 5 -> Cubic
      [] LatticeGeometry = 9 -> CubicV2
      [] LatticeGeometry = 11 -> CubicV4
      [] LatticeGeometry = 0 \/ LatticeGeometry \notin 0..LastGeometryKey -> BCC

\* ---------------------------------------------------------------- Cell.py
\* the keys of pointDict in generateBeamsInCell, in insertion order
RECURSIVE pointDictKeys(_, _)
pointDictKeys(segs, acc) ==
    IF segs = <<>> THEN acc
    ELSE LET l == Head(segs)
             a == <<l[1], l[2], l[3]>>
             b == <<l[4], l[5], l[6]>>
             acc1 == IF a \in SeqRange(acc) THEN acc ELSE Append(acc, a)
             acc2 == IF b \in SeqRange(acc1) THEN acc1 ELSE Append(acc1, b)
         IN  pointDictKeys(Tail(segs), acc2)

IndexOf(seq, v) == CHOOSE i \in DOMAIN seq : seq[i] = v

\* x1 * self.cellSize[0] + startCellPos[0] for a half-unit template value
ScaleCoord(h, size, start) == (h * size) \div 2 + start

\* Cell.generateBeamsInCell: the points and beams of one cell; pbase is the
\* number of points already in the heap
cellPoints(template, cellSize, startCellPos) ==
    LET keys == pointDictKeys(template, <<>>)
    IN  [n \in 1..Len(keys) |->
            Point(ScaleCoord(keys[n][1], cellSize[1], startCellPos[1]),
                  ScaleCoord(keys[n][2], cellSize[2], startCellPos[2]),
                  ScaleCoord(keys[n][3], cellSize[3], startCellPos[3]))]

generateBeamsInCell(template, cellSize, startCellPos, beamRadius, beamType, pbase) ==
    LET keys == pointDictKeys(template, <<>>)
        pts == cellPoints(template, cellSize, startCellPos)
    IN  [n \in 1..Len(template) |->
            LET l == template[n]
                i1 == IndexOf(keys, <<l[1], l[2], l[3]>>)
                i2 == IndexOf(keys, <<l[4], l[5], l[6]>>)
            IN  Beam(pbase + i1, pbase + i2, beamRadius, 0, beamType,
                     getLength(pts[i1], pts[i2]))]

\* Cell.getCellBoundaryBox
getCellBoundaryBox(cell) ==
    <<cell.coordinateCell[1], cell.coordinateCell[1] + cell.cellSize[1],
      cell.coordinateCell[2], cell.coordinateCell[2] + cell.cellSize[2],
      cell.coordinateCell[3], cell.coordinateCell[3] + cell.cellSize[3]>>

\* Cell.addCellNeighbour
addCellNeighbour(neighbourCells, c) ==
    IF c \in SeqRange(neighbourCells) THEN neighbourCells
    ELSE Append(neighbourCells, c)

\* ------------------------------------------------------------- Lattice.py
\* Lattice.isNotInErasedRegion: TRUE when the cell start lies in an erased
\* block (the cell is then left out)
isNotInErasedRegion(erasedParts, startCellPos) ==
    \E n \in DOMAIN erasedParts :
        \A d \in 1..3 :
            /\ erasedParts[n][d] <= startCellPos[d]
            /\ startCellPos[d] <= erasedParts[n][d] + erasedParts[n][d + 3]

\* the grid positions in the order of the three nested loops of
\* generateLattice
gridPositions(n) ==
    [m \in 1..(n[1] * n[2] * n[3]) |->
        <<(m - 1) \div (n[2] * n[3]), ((m - 1) \div n[3]) % n[2], (m - 1) % n[3]>>]

startCellPosOf(pos, size) == <<pos[1] * size[1], pos[2] * size[2], pos[3] * size[3]>>

\* the positions generateLattice keeps (constant gradients: every cell has
\* the initial cell size)
keptPositions(c) ==
    SelectSeq(gridPositions(c.num_cells),
              LAMBDA pos : ~isNotInErasedRegion(c.eraser_blocks,
                                                  startCellPosOf(pos, c.cell_size)))

\* an eraser block that covers the start of the cell at grid position pos
\* and of no other cell: start of the cell, half a unit wide
eraserAt(pos, size) ==
    <<pos[1] * size[1], pos[2] * size[2], pos[3] * size[3],
      Unit \div 2, Unit \div 2, Unit \div 2>>

\* the radii of the model: 0.1 and 1.0
Radii == {Unit \div 10, Unit}

\* the constructor arguments.  sim_method and enable_simulation_properties
\* are read by one line of __init__ each and are drawn when the constructor
\* reaches that line.  eraser_blocks is None (here the empty list) or one
\* block over the cell at grid position (1, 0, 0).
Init ==
    /\ pc = "generateLattice"
    /\ \E nx \in 1..MaxNumCellsX, ny \in 1..MaxNumCellsY, nz \in 1..MaxNumCellsZ,
          sx \in 1..MaxCellSize, g \in GeomTypes, r \in Radii, per \in BOOLEAN,
          er \in {<<>>, << <<1, 0, 0>> >>} :
          /\ nx * ny * nz <= MaxCells
          /\ cfg = [num_cells |-> <<nx, ny, nz>>,
                    cell_size |-> <<sx * Unit, Unit, Unit>>,
                    geom_types |-> g, radii |-> r,
                    enable_periodicity |-> per,
                    eraser_blocks |->
                       [n \in DOMAIN er |-> eraserAt(er[n], <<sx * Unit, Unit, Unit>>)]]
    /\ cells = <<>>
    /\ pointObj = <<>>
    /\ beamObj = <<>>
    /\ boundaryBox = <<>>
    /\ occupancy_matrix = [isNone |-> TRUE, at |-> <<>>]
    /\ maxIndexBoundary = None
    /\ freeDOF = None
    /\ arg = <<>>
    /\ ret = <<>>

\* ---------------------------------- the instantiation of a cell, alone
\* the largest template id of the model
MaxGeometryId == 21

\* the template ids given to a cell: the ids 0, 5, 9 of LATTICE_GEOMETRIES,
\* whose templates the model has, and ids that are no key of it
CellGeometryIds == {-2, 0, 5, 9} \cup ((LastGeometryKey + 1)..MaxGeometryId)

\* Cell.__init__ with one geometry and constant gradients, up to the call of
\* generateBeamsInCell
InitCell ==
    /\ Dummy
    /\ pc = "generateBeamsInCell"
    /\ \E latticeType \in CellGeometryIds, sx \in 1..MaxCellSize, r \in Radii,
          px \in 0..1, py \in 0..1, pz \in 0..1 :
          arg = [latticeType |-> latticeType,
                 cellSize |-> <<sx * Unit, Unit, Unit>>,
                 startCellPos |-> <<px * sx * Unit, py * Unit, pz * Unit>>,
                 beamRadius |-> r]
    /\ ret = <<>>

\* Cell.generateBeamsInCell on the new cell ; neither the lookup of the
\* template nor the loop has a raise
CallGenerateBeamsInCell ==
    /\ pc = "generateBeamsInCell"
    /\ ret' = [raised |-> FALSE,
               template |-> Lattice_geometry(arg.latticeType),
               points |-> cellPoints(Lattice_geometry(arg.latticeType), arg.cellSize,
                                     arg.startCellPos),
               beams |-> generateBeamsInCell(Lattice_geometry(arg.latticeType),
                                             arg.cellSize, arg.startCellPos,
                                             arg.beamRadius, 0, 0)]
    /\ pc' = "generated"
    /\ UNCHANGED <<arg, latticeVars>>

NextCell == CallGenerateBeamsInCell

SpecCell == InitCell /\ [][NextCell]_vars

\* Lattice.generateLattice (one geometry, no mesh)
generateLattice ==
    /\ pc = "generateLattice"
    /\ LET template == Lattice_geometry(cfg.geom_types)
           kept == keptPositions(cfg)
           NP == Len(pointDictKeys(template, <<>>))
           NB == Len(template)
           start(c) == startCellPosOf(kept[c], cfg.cell_size)
       IN  /\ cells' = [c \in 1..Len(kept) |->
                  [posCell |-> kept[c],
                   coordinateCell |-> start(c),
                   cellSize |-> cfg.cell_size,
                   beams |-> [n \in 1..NB |-> (c - 1) * NB + n],
                   index |-> None,
                   neighbourCells |-> <<>>,
                   radius |-> cfg.radii,
                   matB |-> [shape |-> <<>>, entries |-> <<>>]]]
           /\ pointObj' = [n \in 1..(Len(kept) * NP) |->
                  cellPoints(template, cfg.cell_size,
                             start(((n - 1) \div NP) + 1))[((n - 1) % NP) + 1]]
           /\ beamObj' = [n \in 1..(Len(kept) * NB) |->
                  LET c == ((n - 1) \div NB) + 1
                  IN  generateBeamsInCell(template, cfg.cell_size, start(c), cfg.radii,
                                          0, (c - 1) * NP)[((n - 1) % NB) + 1]]
    /\ pc' = "getMinMaxValues"
    /\ UNCHANGED <<cfg, boundaryBox, occupancy_matrix, maxIndexBoundary, freeDOF, arg, ret>>

\* the references of all beams, cell after cell, in list order
RECURSIVE flatBeams(_, _)
flatBeams(cs, c) ==
    IF c > Len(cs) THEN <<>> ELSE cs[c].beams \o flatBeams(cs, c + 1)

SetMin(S) == CHOOSE v \in S : \A w \in S : v <= w
SetMax(S) == CHOOSE v \in S : \A w \in S : v >= w

\* Lattice.getMinMaxValues ; raises ValueError when there is no cell
getMinMaxValues ==
    /\ pc = "getMinMaxValues"
    /\ IF cells = <<>>
       THEN /\ pc' = "raised"
            /\ UNCHANGED boundaryBox
       ELSE /\ LET ids == UNION {{beamObj[b].point1, beamObj[b].point2} :
                                    b \in SeqRange(flatBeams(cells, 1))}
                   x_values == {pointObj[i].x : i \in ids}
                   y_values == {pointObj[i].y : i \in ids}
                   z_values == {pointObj[i].z : i \in ids}
               IN  boundaryBox' = <<SetMin(x_values), SetMax(x_values),
                                    SetMin(y_values), SetMax(y_values),
                                    SetMin(z_values), SetMax(z_values)>>
            /\ pc' = "defineBeamNodeIndex"
    /\ UNCHANGED <<cfg, cells, pointObj, beamObj, occupancy_matrix,
                   maxIndexBoundary, freeDOF, arg, ret>>

\* a Python dict keyed by objects with __hash__/__eq__: a function on the
\* hash values (equal objects have equal hashes and the hash of a coordinate
\* tuple is taken to be the tuple)
Put(d, k, v) == [x \in (DOMAIN d) \cup {k} |-> IF x = k THEN v ELSE d[x]]

beamKey(P, b) == BeamHash(P[b.point1], P[b.point2])

\* defineBeamNodeIndex, first loop, "for node in [beam.point1, beam.point2]"
indexedNode(st, P, i) ==
    IF P[i].index # None
    THEN [st EXCEPT !.nodeIndexed = Put(@, PointHash(P[i]), st.nextNodeIndex),
                    !.nextNodeIndex = @ + 1]
    ELSE st

\* defineBeamNodeIndex, first loop body for one beam
indexedBeam(st, P, b) ==
    LET st1 == IF b.index # None
               THEN [st EXCEPT !.beamIndexed = Put(@, beamKey(P, b), st.nextBeamIndex),
                               !.nextBeamIndex = @ + 1]
               ELSE st
    IN  indexedNode(indexedNode(st1, P, b.point1), P, b.point2)

\* first loop over the beams bs of one cell, from the n-th beam on.  The
\* counters are never negative: the test on st makes the state of one step a
\* value before the next step starts.
RECURSIVE alreadyIndexedBeams(_, _, _, _, _)
alreadyIndexedBeams(bs, n, st, P, B) ==
    IF st.nextNodeIndex < 0 \/ n > Len(bs) THEN st
    ELSE alreadyIndexedBeams(bs, n + 1, indexedBeam(st, P, B[bs[n]]), P, B)

\* first loop, "for cell in self.cells"
RECURSIVE alreadyIndexed(_, _, _, _, _)
alreadyIndexed(cs, c, st, P, B) ==
    IF st.nextNodeIndex < 0 \/ c > Len(cs) THEN st
    ELSE alreadyIndexed(cs, c + 1, alreadyIndexedBeams(cs[c].beams, 1, st, P, B), P, B)

\* the second loop without its test "if node.index is None"
addNodeReassign(st, i) ==
    LET k == PointHash(st.P[i])
    IN  IF k \notin DOMAIN st.nodeIndexed
        THEN [st EXCEPT !.P[i].index = st.nextNodeIndex,
                        !.nodeIndexed = Put(@, k, st.nextNodeIndex),
                        !.nextNodeIndex = @ + 1]
        ELSE [st EXCEPT !.P[i].index = st.nodeIndexed[k]]

\* defineBeamNodeIndex, second loop, "for node in [beam.point1, beam.point2]"
addNode(st, i) ==
    IF st.P[i].index = None
    THEN LET k == PointHash(st.P[i])
         IN  IF k \notin DOMAIN st.nodeIndexed
             THEN [st EXCEPT !.P[i].index = st.nextNodeIndex,
                             !.nodeIndexed = Put(@, k, st.nextNodeIndex),
                             !.nextNodeIndex = @ + 1]
             ELSE [st EXCEPT !.P[i].index = st.nodeIndexed[k]]
    ELSE st

\* defineBeamNodeIndex, second loop body for the beam with reference r
addBeamIndex(st, r) ==
    LET b == st.B[r]
        k == beamKey(st.P, b)
        st1 == IF b.index = None
               THEN IF k \notin DOMAIN st.beamIndexed
                    THEN [st EXCEPT !.B[r].index = st.nextBeamIndex,
                                    !.beamIndexed = Put(@, k, st.nextBeamIndex),
                                    !.nextBeamIndex = @ + 1]
                    ELSE [st EXCEPT !.B[r].index = st.beamIndexed[k]]
               ELSE st
    IN  addNode(addNode(st1, b.point1), b.point2)

\* second loop over the beams bs of one cell
RECURSIVE addNotIndexedBeams(_, _, _)
addNotIndexedBeams(bs, n, st) ==
    IF st.nextNodeIndex < 0 \/ n > Len(bs) THEN st
    ELSE addNotIndexedBeams(bs, n + 1, addBeamIndex(st, bs[n]))

\* second loop, "for cell in self.cells"
RECURSIVE addNotIndexed(_, _, _)
addNotIndexed(cs, c, st) ==
    IF st.nextNodeIndex < 0 \/ c > Len(cs) THEN st
    ELSE addNotIndexed(cs, c + 1, addNotIndexedBeams(cs[c].beams, 1, st))

\* Lattice.defineBeamNodeIndex on the cells cs and the heaps P, B: the
\* dictionaries and counters of the method, then the heaps
defineBeamNodeIndexOn(cs, P, B) ==
    addNotIndexed(cs, 1,
        alreadyIndexed(cs, 1,
            [beamIndexed |-> <<>>, nodeIndexed |-> <<>>,
             nextBeamIndex |-> 0, nextNodeIndex |-> 0, P |-> P, B |-> B],
            P, B))

defineBeamNodeIndex ==
    /\ pc = "defineBeamNodeIndex"
    /\ \E st \in {defineBeamNodeIndexOn(cells, pointObj, beamObj)} :
          /\ pointObj' = st.P
          /\ beamObj' = st.B
    /\ pc' = "defineCellIndex"
    /\ UNCHANGED <<cfg, cells, boundaryBox, occupancy_matrix, maxIndexBoundary,
                   freeDOF, arg, ret>>

\* Lattice.defineCellIndex
defineCellIndex ==
    /\ pc = "defineCellIndex"
    /\ cells' = [c \in DOMAIN cells |->
                    IF cells[c].index = None
                    THEN [cells[c] EXCEPT !.index =
                            Cardinality({d \in 1..(c - 1) : cells[d].index = None})
                            + Cardinality({d \in DOMAIN cells : cells[d].index # None})]
                    ELSE cells[c]]
    /\ pc' = "defineCellNeighbours"
    /\ UNCHANGED <<cfg, pointObj, beamObj, boundaryBox, occupancy_matrix,
                   maxIndexBoundary, freeDOF, arg, ret>>

\* Lattice.getCellOccupancyMatrix: the cell number at each grid position, 0
\* where np.empty left None
getCellOccupancyMatrix(cs, n) ==
    [isNone |-> FALSE,
     at |-> [pos \in (0..(n[1] - 1)) \X (0..(n[2] - 1)) \X (0..(n[3] - 1)) |->
                IF \E c \in DOMAIN cs : cs[c].posCell = pos
                THEN CHOOSE c \in DOMAIN cs : cs[c].posCell = pos
                ELSE 0]]

\* Lattice.getCellsAt: the cells of occupancy_matrix[index, :, :] when axis
\* is 1 ('x'), [:, index, :] when 2, [:, :, index] when 3
getCellsAt(occ, axis, index) ==
    {occ.at[pos] : pos \in {q \in DOMAIN occ.at : q[axis] = index /\ occ.at[q] # 0}}

\* Lattice.getRelativeBoundaryBox
relativeBounds(cs, occ, cell, axis) ==
    LET arrayCell == getCellsAt(occ, axis, cell.posCell[axis])
    IN  <<SetMin({getCellBoundaryBox(cs[c])[2 * axis - 1] : c \in arrayCell}),
          SetMax({getCellBoundaryBox(cs[c])[2 * axis] : c \in arrayCell})>>

getRelativeBoundaryBox(cs, occ, cell) ==
    relativeBounds(cs, occ, cell, 1) \o relativeBounds(cs, occ, cell, 2)
        \o relativeBounds(cs, occ, cell, 3)

\* defineCellNeighbours: neighbor_offsets
neighbor_offsets(size) ==
    << <<-size[1], 0, 0>>, <<size[1], 0, 0>>, <<0, -size[2], 0>>, <<0, size[2], 0>>,
       <<0, 0, -size[3]>>, <<0, 0, size[3]>> >>

\* defineCellNeighbours: the periodic branch for one axis
periodicCoord(raw, lo, hi, off) ==
    IF raw < lo THEN hi + off ELSE IF raw >= hi THEN lo ELSE raw

\* defineCellNeighbours: neighbor_pos of one offset, <<>> when the loop
\* continues.  posCell is a grid index, the offset a cell size and the box a
\* coordinate; as in the code the three are added and compared as numbers
\* (here all in steps).
neighbor_pos(cell, offset, box, periodicity) ==
    LET raw_pos == <<cell.posCell[1] * Unit + offset[1],
                     cell.posCell[2] * Unit + offset[2],
                     cell.posCell[3] * Unit + offset[3]>>
    IN  IF periodicity
        THEN <<periodicCoord(raw_pos[1], box[1], box[2], offset[1]),
               periodicCoord(raw_pos[2], box[3], box[4], offset[2]),
               periodicCoord(raw_pos[3], box[5], box[6], offset[3])>>
        ELSE IF ~(/\ box[1] <= raw_pos[1] /\ raw_pos[1] <= box[2]
                  /\ box[3] <= raw_pos[2] /\ raw_pos[2] <= box[4]
                  /\ box[5] <= raw_pos[3] /\ raw_pos[3] <= box[6])
             THEN <<>>
             ELSE raw_pos

\* cell_dict lookup: the cell whose tuple(posCell) equals the position
inCellDict(cs, npos) ==
    {c \in DOMAIN cs : npos = <<cs[c].posCell[1] * Unit, cs[c].posCell[2] * Unit,
                                cs[c].posCell[3] * Unit>>}

RECURSIVE neighboursOf(_, _, _, _, _, _, _)
neighboursOf(cs, cell, offsets, n, box, periodicity, acc) ==
    IF n > Len(offsets) THEN acc
    ELSE LET np == neighbor_pos(cell, offsets[n], box, periodicity)
             found == IF np = <<>> THEN {} ELSE inCellDict(cs, np)
             acc1 == IF found = {} THEN acc
                     ELSE addCellNeighbour(acc, CHOOSE c \in found : TRUE)
         IN  neighboursOf(cs, cell, offsets, n + 1, box, periodicity, acc1)

\* Lattice.defineCellNeighbours
defineCellNeighboursOn(cs, occ, c, lbox) ==
    LET localBoundaryBox == occ.isNone /\ c.enable_periodicity /\ c.eraser_blocks # <<>>
        occ1 == IF localBoundaryBox THEN getCellOccupancyMatrix(cs, c.num_cells) ELSE occ
    IN  [occ |-> occ1,
         cells |-> [n \in DOMAIN cs |->
            [cs[n] EXCEPT !.neighbourCells =
                neighboursOf(cs, cs[n], neighbor_offsets(c.cell_size), 1,
                             IF localBoundaryBox
                             THEN getRelativeBoundaryBox(cs, occ1, cs[n]) ELSE lbox,
                             c.enable_periodicity, <<>>)]]]

defineCellNeighbours ==
    /\ pc = "defineCellNeighbours"
    /\ LET r == defineCellNeighboursOn(cells, occupancy_matrix, cfg, boundaryBox)
       IN  /\ cells' = r.cells
           /\ occupancy_matrix' = r.occ
    /\ pc' = "setPointLocalTag"
    /\ UNCHANGED <<cfg, pointObj, beamObj, boundaryBox, maxIndexBoundary, freeDOF, arg, ret>>

\* the points referenced by the beams of one cell
cellPointRefs(cell, B) ==
    UNION {{B[cell.beams[n]].point1, B[cell.beams[n]].point2} : n \in DOMAIN cell.beams}

\* "for cell in self.cells: for beam in cell.beams: for node in [...]" writes
\* a field of a node once per reference; the value that stays is the one
\* written for the last cell that references the node (0: no reference)
lastCellOf(cs, B, P) ==
    LET refs == [c \in DOMAIN cs |-> cellPointRefs(cs[c], B)]
    IN  [i \in DOMAIN P |->
            LET S == {c \in DOMAIN cs : i \in refs[c]}
            IN  IF S = {} THEN 0 ELSE SetMax(S)]

\* Lattice.setPointLocalTag
setPointLocalTagOn(cs, P, B) ==
    LET last == lastCellOf(cs, B, P)
    IN  [i \in DOMAIN P |->
            IF last[i] = 0 THEN P[i]
            ELSE [P[i] EXCEPT !.localTag = tagPoint(P[i], getCellBoundaryBox(cs[last[i]]))]]

setPointLocalTag ==
    /\ pc = "setPointLocalTag"
    /\ pointObj' = setPointLocalTagOn(cells, pointObj, beamObj)
    /\ pc' = "applyTagToAllPoint"
    /\ UNCHANGED <<cfg, cells, beamObj, boundaryBox, occupancy_matrix,
                   maxIndexBoundary, freeDOF, arg, ret>>

\* Lattice.applyTagToAllPoint
applyTagToAllPointOn(cs, P, B, occ, c, lbox) ==
    LET use_local_box == c.eraser_blocks # <<>>
        occ1 == IF occ.isNone /\ use_local_box
                THEN getCellOccupancyMatrix(cs, c.num_cells) ELSE occ
        last == lastCellOf(cs, B, P)
    IN  [occ |-> occ1,
         P |-> [i \in DOMAIN P |->
                  IF last[i] = 0 THEN P[i]
                  ELSE [P[i] EXCEPT !.tag =
                          tagPoint(P[i], IF use_local_box
                                         THEN getRelativeBoundaryBox(cs, occ1, cs[last[i]])
                                         ELSE lbox)]]]

applyTagToAllPoint ==
    /\ pc = "applyTagToAllPoint"
    /\ LET r == applyTagToAllPointOn(cells, pointObj, beamObj, occupancy_matrix,
                                     cfg, boundaryBox)
       IN  /\ pointObj' = r.P
           /\ occupancy_matrix' = r.occ
    /\ pc' = "simMethod"
    /\ UNCHANGED <<cfg, cells, beamObj, boundaryBox, maxIndexBoundary, freeDOF, arg, ret>>

\* defineNodeIndexBoundary, loop body for one node reference, after
\* "localTag = node.tagPoint(...)"
indexBoundaryNode(st, i, localTag) ==
    IF localTag # <<>>
    THEN IF PointHash(st.P[i]) \in DOMAIN st.nodeAlreadyIndexed
         THEN [st EXCEPT !.P[i].localTag = localTag,
                         !.P[i].indexBoundary = st.nodeAlreadyIndexed[PointHash(st.P[i])]]
         ELSE [st EXCEPT !.P[i].localTag = localTag,
                         !.nodeAlreadyIndexed = Put(@, PointHash(st.P[i]), st.IndexCounter),
                         !.P[i].indexBoundary = st.IndexCounter,
                         !.IndexCounter = @ + 1]
    ELSE [st EXCEPT !.P[i].localTag = localTag]

\* defineNodeIndexBoundary, loop body for one node reference
boundaryNode(st, i, box) == indexBoundaryNode(st, i, tagPoint(st.P[i], box))

\* "for beam in cell.beams" from the n-th beam on ; the counter is never
\* negative: the test on st makes the state of one step a value before the
\* next step starts
RECURSIVE boundaryBeams(_, _, _, _, _)
boundaryBeams(bs, n, st, B, box) ==
    IF st.IndexCounter < 0 \/ n > Len(bs) THEN st
    ELSE boundaryBeams(bs, n + 1,
                       boundaryNode(boundaryNode(st, B[bs[n]].point1, box),
                                    B[bs[n]].point2, box),
                       B, box)

RECURSIVE boundaryCells(_, _, _, _)
boundaryCells(cs, c, st, B) ==
    IF st.IndexCounter < 0 \/ c > Len(cs) THEN st
    ELSE boundaryCells(cs, c + 1,
                       boundaryBeams(cs[c].beams, 1, st, B, getCellBoundaryBox(cs[c])), B)

\* Lattice.defineNodeIndexBoundary
defineNodeIndexBoundaryOn(cs, P, B) ==
    boundaryCells(cs, 1, [IndexCounter |-> 0, nodeAlreadyIndexed |-> <<>>, P |-> P], B)

\* __init__ with enable_simulation_properties (loadRelativeDensityModel
\* touches no state of the model)
defineNodeIndexBoundary ==
    /\ pc = "simulationProperties"
    /\ \E st \in {defineNodeIndexBoundaryOn(cells, pointObj, beamObj)} :
          /\ pointObj' = st.P
          /\ maxIndexBoundary' = st.IndexCounter - 1
    /\ pc' = "ready"
    /\ UNCHANGED <<cfg, cells, beamObj, boundaryBox, occupancy_matrix, freeDOF, arg, ret>>

\* __init__ without enable_simulation_properties
simulationPropertiesOff ==
    /\ pc = "simulationProperties"
    /\ pc' = "ready"
    /\ UNCHANGED <<latticeVars, arg, ret>>

\* __init__ with sim_method = 0
simMethodOff ==
    /\ pc = "simMethod"
    /\ pc' = "simulationProperties"
    /\ UNCHANGED <<latticeVars, arg, ret>>

\* ------------------------------------------------------------ angle pass
\* angles are in hundredths of a degree
Angle0 == 0
Angle90 == 9000
Angle180 == 18000
\* getListAngleBeam: the angle given to a beam end without another beam
AngleAlone == 17990
\* getListAngleBeam: angles below 0.01 degree are dropped
AngleMin == 1
\* functionPenalizationLzone: angles above 170 degrees are degenerate
AngleDegenerate == 17000

\* Beam.functionPenalizationLzone: radius / tan(angle / 2).  The beams of the
\* modelled templates meet at 0, 90 or 180 degrees only.  For 90 degrees
\* math.tan(math.radians(90) / 2) is 0.9999999999999999, the float below 1,
\* and the quotient is the float above radius.
functionPenalizationLzone(radius, angle) ==
    CASE angle > AngleDegenerate -> LzoneDegenerate
      [] angle = Angle90 -> radius + Ulp

Beam_getLengthMod(b) ==
    <<functionPenalizationLzone(b.angle1[1], b.angle1[2]),
      functionPenalizationLzone(b.angle2[1], b.angle2[2])>>

firstTag(p) == IF p.tag = <<>> THEN None ELSE p.tag[1]

cornerTags == 1000..1007
list_tag_edge == << {102, 104, 106, 107}, {100, 108, 105, 111}, {101, 109, 103, 110} >>
list_face_tag == << {10, 15}, {11, 14}, {12, 13} >>

\* getAngleBetweenBeams: one turn of "for idx1, p1_candidate in enumerate(...)"
\* for the tags in tagSet ; q is <<p1, p2>>, ends1/ends2 the end points of the
\* two beams
matchStep(q, tagSet, idx1, ends1, ends2) ==
    IF firstTag(ends1[idx1 + 1]) \in tagSet
    THEN <<idx1,
           IF firstTag(ends2[1]) \in tagSet THEN 0
           ELSE IF firstTag(ends2[2]) \in tagSet THEN 1
           ELSE q[2]>>
    ELSE q

matchTags(q, tagSet, ends1, ends2) ==
    matchStep(matchStep(q, tagSet, 0, ends1, ends2), tagSet, 1, ends1, ends2)

matchLists(q, lists, ends1, ends2) ==
    matchTags(matchTags(matchTags(q, lists[1], ends1, ends2), lists[2], ends1, ends2),
              lists[3], ends1, ends2)

\* getAngleBetweenBeams: "if p1 is None and p2 is None:" before the edge
\* lists and before the face lists
ifBothNone(q, lists, ends1, ends2) ==
    IF q = <<None, None>> THEN matchLists(q, lists, ends1, ends2) ELSE q

\* getAngleBetweenBeams: p1, p2 of the periodic case
periodicEnds(periodicity, ends1, ends2) ==
    IF ~periodicity THEN <<None, None>>
    ELSE ifBothNone(ifBothNone(matchTags(<<None, None>>, cornerTags, ends1, ends2),
                               list_tag_edge, ends1, ends2),
                    list_face_tag, ends1, ends2)

\* outcomes of getAngleBetweenBeams that are exceptions: the ValueError "Beams
\* are not connected at any point", and the division by a zero norm
NotConnected == -2
ZeroNorm == -3

Sign(a) == IF a > 0 THEN 1 ELSE IF a < 0 THEN -1 ELSE 0

\* the angle of two vectors that are parallel to an axis: acos of the
\* normalised dot product ; ZeroNorm when a norm is 0 (ZeroDivisionError)
angleOf(u, v) ==
    IF u = <<0, 0, 0>> \/ v = <<0, 0, 0>> THEN ZeroNorm
    ELSE LET cos_theta == Sign(u[1]) * Sign(v[1]) + Sign(u[2]) * Sign(v[2])
                              + Sign(u[3]) * Sign(v[3])
         IN  IF cos_theta = 1 THEN Angle0
             ELSE IF cos_theta = 0 THEN Angle90 ELSE Angle180

\* getAngleBetweenBeams after p1, p2 (here q) are set: the choice of u and v
\* and their angle ; NotConnected when it raises "Beams are not connected at
\* any point"
angleAtSharedEnd(q, a1, a2, b1, b2) ==
    IF PointEq(a1, b1) \/ q = <<0, 0>>
    THEN angleOf(PointSub(a2, a1), PointSub(b2, b1))
    ELSE IF PointEq(a1, b2) \/ q = <<0, 1>>
    THEN angleOf(PointSub(a2, a1), PointSub(b1, b2))
    ELSE IF PointEq(a2, b1) \/ q = <<1, 0>>
    THEN angleOf(PointSub(a1, a2), PointSub(b2, b1))
    ELSE IF PointEq(a2, b2) \/ q = <<1, 1>>
    THEN angleOf(PointSub(a1, a2), PointSub(b1, b2))
    ELSE NotConnected

\* getListAngleBeam.getAngleBetweenBeams
getAngleBetweenBeams(periodicity, a1, a2, b1, b2) ==
    angleAtSharedEnd(periodicEnds(periodicity, <<a1, a2>>, <<b1, b2>>), a1, a2, b1, b2)

\* getConnectedBeams.is_periodic_connected
is_periodic_connected(p, bp1, bp2, tags_range) ==
    /\ SeqRange(p.tag) \cap tags_range # {}
    /\ (SeqRange(bp1.tag) \cup SeqRange(bp2.tag)) \cap tags_range # {}
    /\ SeqRange(p.localTag) \cap tags_range # {}
    /\ (SeqRange(bp1.localTag) \cup SeqRange(bp2.localTag)) \cap tags_range # {}

tag_checks == {cornerTags} \cup SeqRange(list_tag_edge) \cup SeqRange(list_face_tag)

\* getConnectedBeams: the beams of beamList connected to the end p of a beam
connectedTo(p, beamList, P, B, periodicity) ==
    {r \in beamList :
        \/ PointEq(p, P[B[r].point1]) \/ PointEq(p, P[B[r].point2])
        \/ /\ periodicity
           /\ \E tags_range \in tag_checks :
                is_periodic_connected(p, P[B[r].point1], P[B[r].point2], tags_range)}

\* getListAngleBeam: the angles of beam b with the beams of pointbeams
getListAngleBeam(b, pointbeams, P, B, periodicity) ==
    IF Cardinality(pointbeams) > 1
    THEN {<<B[r].radius,
            getAngleBetweenBeams(periodicity, P[b.point1], P[b.point2],
                                 P[B[r].point1], P[B[r].point2])>> : r \in pointbeams}
    ELSE {<<b.radius, AngleAlone>>}

\* getAllAngles.findMinAngle on the angles of at least 0.01 degree: the
\* (radius, angle) of the largest penalization length, <<>> when no length is
\* positive (LAngle stays None)
findMinAngle(radiusAngles) ==
    LET nz == {ra \in radiusAngles : ra[2] >= AngleMin}
        best == {ra \in nz : \A rb \in nz :
                    functionPenalizationLzone(rb[1], rb[2])
                        <= functionPenalizationLzone(ra[1], ra[2])}
    IN  IF nz = {} THEN <<>> ELSE CHOOSE ra \in best : TRUE

\* getAllAngles: beamList of one cell, the first beam of each value in the
\* order of the cells of cellListNeighbours
RECURSIVE catBeams(_, _, _)
catBeams(cs, order, n) ==
    IF n > Len(order) THEN <<>> ELSE cs[order[n]].beams \o catBeams(cs, order, n + 1)

beamListOf(cs, order, P, B) ==
    LET cat == catBeams(cs, order, 1)
    IN  {cat[n] : n \in {m \in DOMAIN cat :
            \A k \in 1..(m - 1) : beamKey(P, B[cat[k]]) # beamKey(P, B[cat[m]])}}

\* getAllAngles: the tuple given to setAngle, from the results of the two
\* calls of findMinAngle ; <<>> when round(LAngle, 2) raises on None
angleList(m1, m2) ==
    IF m1 = <<>> \/ m2 = <<>> THEN <<>> ELSE <<m1, m2>>

\* getAllAngles: the tuple given to setAngle, from the results l1, l2 of the
\* two calls of getListAngleBeam ; <<>> when one of them raised
angleDataFrom(l1, l2) ==
    IF \E ra \in l1 \cup l2 : ra[2] \in {NotConnected, ZeroNorm} THEN <<>>
    ELSE angleList(findMinAngle(l1), findMinAngle(l2))

\* getAllAngles: the value given to setAngle for the beam with reference r of
\* a cell with beam list beamList ; <<>> when the computation raises
\* (beams not connected, a zero norm, round(None))
angleDataOf(r, beamList, P, B, periodicity) ==
    angleDataFrom(
        getListAngleBeam(B[r], connectedTo(P[B[r].point1], beamList, P, B, periodicity),
                         P, B, periodicity),
        getListAngleBeam(B[r], connectedTo(P[B[r].point2], beamList, P, B, periodicity),
                         P, B, periodicity))

\* Beam.setAngle on the beam with reference r of the heap B ; raised is set
\* when the computation of AngleData raised
setAngle(B, r, AngleData) ==
    IF AngleData = <<>> THEN [raised |-> TRUE, B |-> B]
    ELSE [raised |-> FALSE,
          B |-> [B EXCEPT ![r].angle1 = AngleData[1], ![r].angle2 = AngleData[2]]]

\* getAllAngles, "for beam in cell.beams" from the n-th beam of the list bs
\* on, s the outcome of the beams before it
RECURSIVE setAngleBeams(_, _, _, _, _, _)
setAngleBeams(bs, n, beamList, P, s, periodicity) ==
    IF s.raised \/ n > Len(bs) THEN s
    ELSE setAngleBeams(bs, n + 1, beamList, P,
                       setAngle(s.B, bs[n], angleDataOf(bs[n], beamList, P, s.B, periodicity)),
                       periodicity)

\* the outcome s of the beams of cell c, with the number of the cell
atCell(c, s) == [raised |-> s.raised, B |-> s.B, cell |-> c]

\* getAllAngles, "for cell in self.cells" from cell c on, s the outcome of the
\* cells before it
RECURSIVE setAngleCells(_, _, _, _, _)
setAngleCells(cs, c, P, s, periodicity) ==
    IF s.raised \/ c > Len(cs) THEN s
    ELSE setAngleCells(cs, c + 1, P,
                       atCell(c, setAngleBeams(cs[c].beams, 1,
                                               beamListOf(cs, cs[c].neighbourCells, P, s.B),
                                               P, s, periodicity)),
                       periodicity)

\* getAllAngles: "cellListNeighbours = cell.neighbourCells" is the list of the
\* cell itself, and the append adds the cell to its own neighbours
appendSelf(cs) ==
    [c \in DOMAIN cs |-> [cs[c] EXCEPT !.neighbourCells = Append(@, c)]]

\* __init__ with sim_method = 1, first call: Lattice.getAllAngles.  When the
\* call raises, the constructor raises and no lattice object exists; the
\* values left in cells and beamObj are then those of no object.
getAllAngles ==
    /\ pc = "simMethod"
    /\ cells' = appendSelf(cells)
    /\ \E s \in {setAngleCells(cells', 1, pointObj, [raised |-> FALSE, B |-> beamObj],
                               cfg.enable_periodicity)} :
          /\ beamObj' = s.B
          /\ pc' = IF s.raised THEN "raised" ELSE "setBeamNodeMod"
    /\ UNCHANGED <<cfg, pointObj, boundaryBox, occupancy_matrix, maxIndexBoundary,
                   freeDOF, arg, ret>>

\* ------------------------------------------------- penalization rewriting
\* the power of two above a length r: the floats from r up to it are spaced
\* like the floats at r, the floats above it are spaced wider
BinadeTop(r) ==
    CHOOSE t \in {Unit \div 16, Unit \div 8, Unit \div 4, Unit \div 2, Unit,
                  2 * Unit, 4 * Unit, 8 * Unit, 16 * Unit} : r < t /\ t <= 2 * r

\* the float nearest to v + d, for a grid value v and d of one Ulp or none:
\* the Ulp stays if the floats at v are spaced as finely as below top, and
\* the sum is rounded to v (round-half-even) if not
FloatRound(v, d, top) ==
    IF d = 0 THEN v
    ELSE IF v = 0 THEN d
    ELSE IF Sign(v) = Sign(d)
    THEN IF Abs(v) < top THEN v + d ELSE v
    ELSE IF Abs(v) <= top THEN v + d ELSE v

\* the part of a value f that is off the grid of the multiples of
\* LzoneDegenerate: a few Ulp above or one Ulp below the grid value, on the
\* side of f, or nothing
Dust(f) == Sign(f) * (IF Abs(f) % 4 = 3 THEN -Ulp ELSE Abs(f) % 4)

\* a length as short as the LzoneDegenerate of an angle above 170 degrees
Tiny(f) == Abs(f) <= 2 * LzoneDegenerate

\* the float sum "a + f" of getPointOnBeamFromDistance, a a coordinate and f
\* a length or its opposite.  0 + f is f.  A tiny f added to a coordinate
\* loses its own Dust and leaves the Dust of the coordinate.  A longer f is
\* added to a grid coordinate, and its Dust stays or is rounded away.
FloatAdd(a, f) ==
    CASE a = 0 -> f
      [] a # 0 /\ Tiny(f) -> a + f - Dust(f)
      [] a # 0 /\ ~Tiny(f) /\ Dust(a) = 0 ->
            FloatRound(a + f - Dust(f), Dust(f),
                       IF Dust(f) = 0 THEN 0 ELSE BinadeTop(Abs(f - Dust(f))))

\* Beam.getPointOnBeamFromDistance: factors, (end - start) / beam_length *
\* distance for one axis of a beam parallel to an axis (the direction ratio
\* is 0, 1 or -1, or off these by the Dust of end - start, which the product
\* inherits ; the product of two coordinates is never formed)
factors(dr, beam_length, distance) ==
    CASE dr = 0 -> 0
      [] Abs(dr) = beam_length -> Sign(dr) * distance
      [] dr # 0 /\ Abs(dr) # beam_length /\ Dust(Abs(dr)) = Abs(dr) - beam_length ->
            Sign(dr) * (distance + Abs(dr) - beam_length)

\* Beam.getPointOnBeamFromDistance: point_mod
point_mod(start_point, end_point, beam_length, distance) ==
    <<FloatAdd(start_point.x, factors(end_point.x - start_point.x, beam_length, distance)),
      FloatAdd(start_point.y, factors(end_point.y - start_point.y, beam_length, distance)),
      FloatAdd(start_point.z, factors(end_point.z - start_point.z, beam_length, distance))>>

\* Beam.getPointOnBeamFromDistance
getPointOnBeamFromDistance(p1, p2, distance, pointIndex) ==
    IF pointIndex = 1 THEN point_mod(p1, p2, getLength(p1, p2), distance)
    ELSE point_mod(p2, p1, getLength(p1, p2), distance)

\* Cell.removeBeam: list.remove drops the first beam equal to beamToDelete
RECURSIVE removeBeam(_, _, _, _)
removeBeam(beams, beamToDelete, P, B) ==
    IF beams = <<>> THEN <<>>
    ELSE IF beamKey(P, B[Head(beams)]) = beamKey(P, B[beamToDelete]) THEN Tail(beams)
    ELSE <<Head(beams)>> \o removeBeam(Tail(beams), beamToDelete, P, B)

RECURSIVE removeBeams(_, _, _, _, _)
removeBeams(beams, beamsToRemove, n, P, B) ==
    IF n > Len(beamsToRemove) THEN beams
    ELSE removeBeams(removeBeam(beams, beamsToRemove[n], P, B), beamsToRemove, n + 1, P, B)

\* Cell.addBeam with a tuple
addBeam(beams, beamToAdd) == beams \o beamToAdd

\* setBeamNodeMod before its final defineBeamNodeIndex: the k-th beam met by
\* the loops gets the new points NP+2k-1, NP+2k and the new beams NB+3k-2 ..
\* NB+3k
\* setBeamNodeMod: pointExt1Obj (pointIndex 1) or pointExt2Obj (2) of beam b
pointExtObj(c) == [Point(c[1], c[2], c[3]) EXCEPT !.nodeMod = TRUE]

pointExt(b, P, pointIndex) ==
    pointExtObj(getPointOnBeamFromDistance(P[b.point1], P[b.point2],
                                           Beam_getLengthMod(b)[pointIndex], pointIndex))

\* setBeamNodeMod without "b3.setBeamMod()"
subBeamLastUnflagged(b, j, e1, e2, P1) ==
    CASE j = 1 -> [Beam(b.point1, e1, b.radius, b.material, b.type,
                        getLength(P1[b.point1], P1[e1])) EXCEPT !.modBeam = TRUE]
      [] j = 2 -> Beam(e1, e2, b.radius, b.material, b.type, getLength(P1[e1], P1[e2]))
      [] j = 3 -> Beam(e2, b.point2, b.radius, b.material, b.type,
                       getLength(P1[e2], P1[b.point2]))

\* setBeamNodeMod: b1, b2, b3 (j = 1, 2, 3) for beam b, whose new end points
\* are at e1 and e2 in the heap P1
subBeam(b, j, e1, e2, P1) ==
    CASE j = 1 -> [Beam(b.point1, e1, b.radius, b.material, b.type,
                        getLength(P1[b.point1], P1[e1])) EXCEPT !.modBeam = TRUE]
      [] j = 2 -> Beam(e1, e2, b.radius, b.material, b.type, getLength(P1[e1], P1[e2]))
      [] j = 3 -> [Beam(e2, b.point2, b.radius, b.material, b.type,
                        getLength(P1[e2], P1[b.point2])) EXCEPT !.modBeam = TRUE]

\* setBeamNodeMod: the new points of all beams, two per beam of orig
newPoints(orig, P, B) ==
    [n \in 1..(2 * Len(orig)) |-> pointExt(B[orig[(n + 1) \div 2]], P, 2 - (n % 2))]

\* setBeamNodeMod: the new beams of all beams, three per beam of orig ; NP is
\* the number of points before the rewriting
newBeams(orig, P1, B, NP) ==
    [n \in 1..(3 * Len(orig)) |->
        subBeam(B[orig[(n + 2) \div 3]], ((n - 1) % 3) + 1,
                NP + 2 * ((n + 2) \div 3) - 1, NP + 2 * ((n + 2) \div 3), P1)]

\* setBeamNodeMod: the beam lists after "cell.addBeam(addingBeam)" and
\* "cell.removeBeam(beam)" ; NB is the number of beams before the rewriting
replacedBeams(cs, P1, B1, NB) ==
    [c \in DOMAIN cs |->
        [cs[c] EXCEPT !.beams =
            removeBeams(
                addBeam(@, [n \in 1..(3 * Len(cs[c].beams)) |->
                              NB + 3 * Len(flatBeams(SubSeq(cs, 1, c - 1), 1)) + n]),
                cs[c].beams, 1, P1, B1)]]

\* setBeamNodeMod before its final defineBeamNodeIndex, given the heaps P1 and
\* B1 with the new points and beams
rewriteWith(cs, P1, B1, NB) ==
    [cells |-> replacedBeams(cs, P1, B1, NB), P |-> P1, B |-> B1]

\* the same, given the heap P1 with the new points
rewriteFrom(cs, P1, B, NP) ==
    rewriteWith(cs, P1, B \o newBeams(flatBeams(cs, 1), P1, B, NP), Len(B))

\* setBeamNodeMod before its final defineBeamNodeIndex
rewriteBeams(cs, P, B) ==
    rewriteFrom(cs, P \o newPoints(flatBeams(cs, 1), P, B), B, Len(P))

\* the largest number of cells of a lattice on which the rewriting pass is
\* called a second time
MaxCellsRewrittenTwice == 2

\* setBeamNodeMod: the cells with a beam on which "for beam in cell.beams"
\* raises: getLengthMod unpacks an angle that is None (TypeError), or
\* getPointOnBeamFromDistance divides by a length of 0 (ZeroDivisionError)
raisingCells(cs, B) ==
    {c \in DOMAIN cs : \E n \in DOMAIN cs[c].beams :
        \/ B[cs[c].beams[n]].angle1 = <<>>
        \/ B[cs[c].beams[n]].angle2 = <<>>
        \/ B[cs[c].beams[n]].length = 0}

\* setBeamNodeMod that returns: the rewritten cells cs1 and the heaps after
\* the final defineBeamNodeIndex
rewriteDone(cs1, st) == [raised |-> FALSE, cells |-> cs1, P |-> st.P, B |-> st.B]

rewriteIndexed(r) == rewriteDone(r.cells, defineBeamNodeIndexOn(r.cells, r.P, r.B))

\* setBeamNodeMod that raises in a cell: the cells before it are rewritten,
\* the others (rest) are as they were, and the indices are not updated
rewriteRaised(r, rest) == [raised |-> TRUE, cells |-> r.cells \o rest, P |-> r.P, B |-> r.B]

\* Lattice.setBeamNodeMod on the cells cs and the heaps P, B
setBeamNodeModOn(cs, P, B) ==
    IF raisingCells(cs, B) = {} THEN rewriteIndexed(rewriteBeams(cs, P, B))
    ELSE rewriteRaised(rewriteBeams(SubSeq(cs, 1, SetMin(raisingCells(cs, B)) - 1), P, B),
                       SubSeq(cs, SetMin(raisingCells(cs, B)), Len(cs)))

\* __init__ with sim_method = 1, second call: Lattice.setBeamNodeMod
setBeamNodeMod ==
    /\ pc = "setBeamNodeMod"
    /\ \E r \in {setBeamNodeModOn(cells, pointObj, beamObj)} :
          /\ cells' = r.cells
          /\ pointObj' = r.P
          /\ beamObj' = r.B
          /\ pc' = IF r.raised THEN "raised" ELSE "simulationProperties"
    /\ UNCHANGED <<cfg, boundaryBox, occupancy_matrix, maxIndexBoundary, freeDOF, arg, ret>>

\* getAllAngles: the cells when the loop is in cell n or has ended there ; the
\* cells up to n have been appended to their own neighbours
appendSelfUpTo(cs, n) ==
    [c \in DOMAIN cs |-> IF c <= n THEN [cs[c] EXCEPT !.neighbourCells = Append(@, c)]
                                   ELSE cs[c]]

\* a call of Lattice.getAllAngles on a constructed lattice that the
\* constructor has rewritten ; when it raises the lattice stays as the call
\* left it
getAllAnglesAgain ==
    /\ pc = "ready"
    /\ Len(cells) <= MaxCellsRewrittenTwice
    /\ {i \in DOMAIN pointObj : pointObj[i].nodeMod} # {}
    /\ \E s \in {setAngleCells(appendSelf(cells), 1, pointObj,
                               [raised |-> FALSE, B |-> beamObj, cell |-> 0],
                               cfg.enable_periodicity)} :
          /\ cells' = appendSelfUpTo(cells, s.cell)
          /\ beamObj' = s.B
          /\ pc' = IF s.raised THEN "raisedAgain" ELSE "setBeamNodeModAgain"
    /\ UNCHANGED <<cfg, pointObj, boundaryBox, occupancy_matrix, maxIndexBoundary,
                   freeDOF, arg, ret>>

\* a call of Lattice.setBeamNodeMod after that call of getAllAngles
setBeamNodeModAgain ==
    /\ pc = "setBeamNodeModAgain"
    /\ \E r \in {setBeamNodeModOn(cells, pointObj, beamObj)} :
          /\ cells' = r.cells
          /\ pointObj' = r.P
          /\ beamObj' = r.B
          /\ pc' = IF r.raised THEN "raisedAgain" ELSE "rewrittenTwice"
    /\ UNCHANGED <<cfg, boundaryBox, occupancy_matrix, maxIndexBoundary, freeDOF, arg, ret>>

\* a call of Lattice.setBeamNodeMod alone on a constructed lattice that the
\* constructor has rewritten
setBeamNodeModAlone ==
    /\ pc = "ready"
    /\ Len(cells) <= MaxCellsRewrittenTwice
    /\ {i \in DOMAIN pointObj : pointObj[i].nodeMod} # {}
    /\ \E r \in {setBeamNodeModOn(cells, pointObj, beamObj)} :
          /\ cells' = r.cells
          /\ pointObj' = r.P
          /\ beamObj' = r.B
          /\ pc' = IF r.raised THEN "raisedAlone" ELSE "rewrittenAlone"
    /\ UNCHANGED <<cfg, boundaryBox, occupancy_matrix, maxIndexBoundary, freeDOF, arg, ret>>

\* a call of Lattice.defineBeamNodeIndex on the constructed lattice
reDefineBeamNodeIndex ==
    /\ pc = "ready"
    /\ \E st \in {defineBeamNodeIndexOn(cells, pointObj, beamObj)} :
          /\ pointObj' = st.P
          /\ beamObj' = st.B
    /\ pc' = "reindexed"
    /\ UNCHANGED <<cfg, cells, boundaryBox, occupancy_matrix, maxIndexBoundary,
                   freeDOF, arg, ret>>

\* ------------------------------------------------------ boundary conditions
\* the axis of a surface name: 1, 2, 3 for x, y, z
axisOf(surfaceName) ==
    CASE surfaceName \in {"Xmin", "Xmax"} -> 1
      [] surfaceName \in {"Ymin", "Ymax"} -> 2
      [] surfaceName \in {"Zmin", "Zmax"} -> 3

\* getattr(point, axis)
coordOf(p, surfaceName) == <<p.x, p.y, p.z>>[axisOf(surfaceName)]

\* Cell.getPointOnSurface: surface_map[surfaceName]
surface_map(cell, surfaceName) ==
    IF surfaceName \in {"Xmin", "Ymin", "Zmin"}
    THEN cell.coordinateCell[axisOf(surfaceName)]
    ELSE cell.coordinateCell[axisOf(surfaceName)] + cell.cellSize[axisOf(surfaceName)]

\* Cell.getPointOnSurface, as the set of the references of the points
getPointOnSurface(cell, surfaceName, P, B) ==
    {i \in cellPointRefs(cell, B) : coordOf(P[i], surfaceName) = surface_map(cell, surfaceName)}

\* Lattice.getCellSurface: surface_dict[surface] for the six faces, box the
\* extents xMin, xMax, yMin, yMax, zMin, zMax
surface_dict(surface, box) ==
    IF surface \in {"Xmin", "Ymin", "Zmin"} THEN box[2 * axisOf(surface) - 1]
    ELSE box[2 * axisOf(surface)]

\* Lattice.getCellSurface: the indices of the cells with a point of their own
\* surface on the surface of the lattice
getCellSurface(surface, cs, P, B, box) ==
    {cs[c].index : c \in {d \in DOMAIN cs :
        \E i \in getPointOnSurface(cs[d], surface, P, B) :
            coordOf(P[i], surface) = surface_dict(surface, box)}}

\* Lattice.findPointOnLatticeSurface ; raised for its three ValueErrors.
\* cellList is the intersection of the cell lists of the surfaces, pointSet
\* the set of the references of the points of these cells on all surfaces.
findPointOnLatticeSurface(surfaceNames, cs, P, B, box) ==
    IF \E n \in DOMAIN surfaceNames :
          surfaceNames[n] \notin {"Xmin", "Xmax", "Ymin", "Ymax", "Zmin", "Zmax"}
    THEN [raised |-> TRUE, pointSet |-> {}]
    ELSE LET cellList ==
                 {k \in {cs[c].index : c \in DOMAIN cs} :
                     \A n \in DOMAIN surfaceNames :
                         k \in getCellSurface(surfaceNames[n], cs, P, B, box)}
             pointSet ==
                 UNION {{i \in cellPointRefs(cs[c], B) :
                            \A n \in DOMAIN surfaceNames :
                                i \in getPointOnSurface(cs[c], surfaceNames[n], P, B)} :
                        c \in {d \in DOMAIN cs : cs[d].index \in cellList}}
         IN  IF cs[Len(cs)].index < SetMax(cellList \cup {-1})
             THEN [raised |-> TRUE, pointSet |-> {}]
             ELSE [raised |-> pointSet = {}, pointSet |-> pointSet]

\* "node.displacementValue[DOFi] = val ; node.fixDOF([DOFi])" or
\* "node.appliedForce[DOFi] = val" for the pairs of zip(value, DOF) from the
\* n-th on ; DOFi counts from 0
RECURSIVE constrainNode(_, _, _, _, _)
constrainNode(node, value, DOF, type, n) ==
    IF n > Len(value) \/ n > Len(DOF) THEN node
    ELSE constrainNode(
            IF type = "Displacement"
            THEN [node EXCEPT !.displacementValue[DOF[n] + 1] = value[n],
                              !.fixedDOF[DOF[n] + 1] = 1]
            ELSE IF type = "Force"
            THEN [node EXCEPT !.appliedForce[DOF[n] + 1] = value[n]]
            ELSE node,
            value, DOF, type, n + 1)

\* Lattice.applyAllConstraintsOnNodes (surfaceNamePoint is None): the nodes
\* of the beams of the cells whose indexBoundary is in indexBoundaryList
applyAllConstraintsOnNodes(surfaceNames, value, DOF, type, cs, P, B, box) ==
    LET found == findPointOnLatticeSurface(surfaceNames, cs, P, B, box)
        indexBoundaryList == {P[i].indexBoundary : i \in found.pointSet}
        live == UNION {cellPointRefs(cs[c], B) : c \in DOMAIN cs}
    IN  IF found.raised THEN [raised |-> TRUE, P |-> P]
        ELSE [raised |-> FALSE,
              P |-> [i \in DOMAIN P |->
                        IF i \in live /\ P[i].indexBoundary \in indexBoundaryList
                        THEN constrainNode(P[i], value, DOF, type, 1) ELSE P[i]]]

\* Lattice.getNumberOfNodes
getNumberOfNodes(cs, P, B) ==
    Cardinality({P[i].index : i \in UNION {cellPointRefs(cs[c], B) : c \in DOMAIN cs}})

\* Lattice.applyBoundaryConditionsOnNode (type "Displacement") and
\* Lattice.fixDOFOnNode (value all 0, type "Fix": node.fixDOF(dofFixed)) ;
\* raised for the two tests that raise ValueError
constrainNodes(nodeList, value, DOF, type, cs, P, B) ==
    LET numNodes == getNumberOfNodes(cs, P, B)
        live == UNION {cellPointRefs(cs[c], B) : c \in DOMAIN cs}
    IN  IF \/ numNodes < SetMax(SeqRange(nodeList))
           \/ \E n \in DOMAIN nodeList : nodeList[n] < 0 \/ nodeList[n] >= numNodes
        THEN [raised |-> TRUE, P |-> P]
        ELSE [raised |-> FALSE,
              P |-> [i \in DOMAIN P |->
                        IF i \in live /\ P[i].index \in SeqRange(nodeList)
                        THEN IF type = "Fix"
                             THEN [P[i] EXCEPT !.fixedDOF =
                                      [d \in 1..6 |->
                                          IF (d - 1) \in SeqRange(DOF) THEN 1 ELSE @[d]]]
                             ELSE constrainNode(P[i], value, DOF, type, 1)
                        ELSE P[i]]]

\* the largest number of boundary-condition calls on one lattice
MaxConstraintCalls == 1

\* the arguments of the boundary-condition calls of the model: surface lists
\* (one invalid name), and (value, DOF) lists of length one and two
SurfaceNameLists == {<<"Xmin">>, <<"Xmax">>, <<"Xmin", "Ymin">>, <<"Top">>}

Constraints == {[value |-> <<7>>, DOF |-> <<0>>], [value |-> <<7, 9>>, DOF |-> <<2, 5>>]}

\* node lists of one index: below the range, the first index, the largest
\* index that a node carries, and the number of nodes
NodeLists(cs, P, B) ==
    {<<n>> : n \in {-1, 0, getNumberOfNodes(cs, P, B),
                    SetMax({P[i].index : i \in UNION {cellPointRefs(cs[c], B) :
                                                        c \in DOMAIN cs}})}}

\* a call on the constructed lattice that returns or raises with outcome r ;
\* arg records the calls and ret whether the last one raised
called(r, name, surfaceNames, nodeList, value, DOF) ==
    /\ pointObj' = r.P
    /\ ret' = [raised |-> r.raised]
    /\ arg' = Append(arg, [call |-> name, surfaceNames |-> surfaceNames,
                           nodeList |-> nodeList, value |-> value, DOF |-> DOF])
    /\ UNCHANGED <<pc, cfg, cells, beamObj, boundaryBox, occupancy_matrix,
                   maxIndexBoundary, freeDOF>>

\* Lattice.applyBoundaryConditionsOnSurface
applyBoundaryConditionsOnSurface ==
    /\ pc = "ready"
    /\ Len(arg) < MaxConstraintCalls
    /\ \E surfaceNames \in SurfaceNameLists, c \in Constraints :
          \E r \in {applyAllConstraintsOnNodes(surfaceNames, c.value, c.DOF, "Displacement",
                                               cells, pointObj, beamObj, boundaryBox)} :
             called(r, "applyBoundaryConditionsOnSurface", surfaceNames, <<>>,
                    c.value, c.DOF)

\* Lattice.applyForceOnSurface
applyForceOnSurface ==
    /\ pc = "ready"
    /\ Len(arg) < MaxConstraintCalls
    /\ \E surfaceName \in {<<"Xmax">>, <<"Top">>} :
          \E r \in {applyAllConstraintsOnNodes(surfaceName, <<7>>, <<0>>, "Force",
                                               cells, pointObj, beamObj, boundaryBox)} :
             called(r, "applyForceOnSurface", surfaceName, <<>>, <<7>>, <<0>>)

\* Lattice.fixDOFOnSurface
fixDOFOnSurface ==
    /\ pc = "ready"
    /\ Len(arg) < MaxConstraintCalls
    /\ \E surfaceName \in {<<"Xmin">>, <<"Top">>} :
          \E r \in {applyAllConstraintsOnNodes(surfaceName, <<0, 0>>, <<0, 1>>,
                                               "Displacement",
                                               cells, pointObj, beamObj, boundaryBox)} :
             called(r, "fixDOFOnSurface", surfaceName, <<>>, <<0, 0>>, <<0, 1>>)

\* Lattice.applyBoundaryConditionsOnNode
applyBoundaryConditionsOnNode ==
    /\ pc = "ready"
    /\ Len(arg) < MaxConstraintCalls
    /\ \E nodeList \in NodeLists(cells, pointObj, beamObj) :
          \E r \in {constrainNodes(nodeList, <<7>>, <<0>>, "Displacement",
                                   cells, pointObj, beamObj)} :
             called(r, "applyBoundaryConditionsOnNode", <<>>, nodeList, <<7>>, <<0>>)

\* Lattice.fixDOFOnNode
fixDOFOnNode ==
    /\ pc = "ready"
    /\ Len(arg) < MaxConstraintCalls
    /\ \E nodeList \in NodeLists(cells, pointObj, beamObj) :
          \E r \in {constrainNodes(nodeList, <<0, 0>>, <<0, 1>>, "Fix",
                                   cells, pointObj, beamObj)} :
             called(r, "fixDOFOnNode", <<>>, nodeList, <<0, 0>>, <<0, 1>>)

\* "for cell in self.cells: for beam in cell.beams: for node in
\* [beam.point1, beam.point2]": the references of the nodes in loop order
nodeOrder(cs, B) ==
    LET f == flatBeams(cs, 1)
    IN  [m \in 1..(2 * Len(f)) |->
            IF m % 2 = 1 THEN B[f[(m + 1) \div 2]].point1 ELSE B[f[m \div 2]].point2]

\* node.fixedDOF.count(0)
countFree(fixedDOF) == Cardinality({d \in DOMAIN fixedDOF : fixedDOF[d] = 0})

\* Lattice.setFreeDOF, the loops from the n-th node reference on
RECURSIVE freeDOFNodes(_, _, _, _)
freeDOFNodes(order, n, st, P) ==
    IF st.freeDOF < 0 \/ n > Len(order) THEN st
    ELSE freeDOFNodes(order, n + 1,
            IF P[order[n]].indexBoundary # None
               /\ P[order[n]].indexBoundary \notin st.processed_nodes
            THEN [freeDOF |-> st.freeDOF + countFree(P[order[n]].fixedDOF),
                  processed_nodes |-> st.processed_nodes \cup {P[order[n]].indexBoundary}]
            ELSE st,
            P)

\* setGlobalFreeDOFIndex: "for i in np.where(np.array(node.fixedDOF) == 0)[0]:
\* node.globalFreeDOFIndex[i] = counter ; counter += 1"
indexFreeDOF(node, counter) ==
    [d \in 1..6 |->
        IF node.fixedDOF[d] = 0
        THEN counter + Cardinality({e \in 1..(d - 1) : node.fixedDOF[e] = 0})
        ELSE node.globalFreeDOFIndex[d]]

\* globalIndexNode without "counter += 1"
globalIndexNodeSameCounter(st, i) ==
    IF st.P[i].indexBoundary = None THEN st
    ELSE IF st.P[i].indexBoundary \notin DOMAIN st.processed_nodes
    THEN [counter |-> st.counter,
          processed_nodes |-> Put(st.processed_nodes, st.P[i].indexBoundary,
                                  indexFreeDOF(st.P[i], st.counter)),
          P |-> [st.P EXCEPT ![i].globalFreeDOFIndex = indexFreeDOF(st.P[i], st.counter)]]
    ELSE [st EXCEPT !.P[i].globalFreeDOFIndex = st.processed_nodes[st.P[i].indexBoundary]]

\* setGlobalFreeDOFIndex, loop body for the node reference i
globalIndexNode(st, i) ==
    IF st.P[i].indexBoundary = None THEN st
    ELSE IF st.P[i].indexBoundary \notin DOMAIN st.processed_nodes
    THEN [counter |-> st.counter + countFree(st.P[i].fixedDOF),
          processed_nodes |-> Put(st.processed_nodes, st.P[i].indexBoundary,
                                  indexFreeDOF(st.P[i], st.counter)),
          P |-> [st.P EXCEPT ![i].globalFreeDOFIndex = indexFreeDOF(st.P[i], st.counter)]]
    ELSE [st EXCEPT !.P[i].globalFreeDOFIndex = st.processed_nodes[st.P[i].indexBoundary]]

RECURSIVE globalIndexNodes(_, _, _)
globalIndexNodes(order, n, st) ==
    IF st.counter < 0 \/ n > Len(order) THEN st
    ELSE globalIndexNodes(order, n + 1, globalIndexNode(st, order[n]))

\* Lattice.setFreeDOF, called after the boundary conditions
setFreeDOF ==
    /\ pc = "ready"
    /\ freeDOF' = freeDOFNodes(nodeOrder(cells, beamObj), 1,
                            [freeDOF |-> 0, processed_nodes |-> {}], pointObj).freeDOF
    /\ pc' = "setGlobalFreeDOFIndex"
    /\ UNCHANGED <<cfg, cells, pointObj, beamObj, boundaryBox, occupancy_matrix,
                   maxIndexBoundary, arg, ret>>

\* Lattice.setGlobalFreeDOFIndex, called after setFreeDOF
setGlobalFreeDOFIndex ==
    /\ pc = "setGlobalFreeDOFIndex"
    /\ pointObj' = globalIndexNodes(nodeOrder(cells, beamObj), 1,
                                 [counter |-> 0, processed_nodes |-> <<>>,
                                  P |-> pointObj]).P
    /\ pc' = "buildCouplingOperatorForEachCells"
    /\ UNCHANGED <<cfg, cells, beamObj, boundaryBox, occupancy_matrix,
                   maxIndexBoundary, freeDOF, arg, ret>>

\* Cell.__init__: self.originalTags, the 26 local tags
originalTags ==
    <<1000, 1001, 1002, 1003, 1004, 1005, 1006, 1007, 10, 11, 12, 13, 14, 15,
      100, 101, 102, 103, 104, 105, 106, 107, 108, 109, 110, 111>>

\* Cell.buildCouplingOperator: its local list originalTags
couplingTags ==
    <<1000, 1001, 1002, 1003, 1004, 1005, 1006, 1007,
      100, 101, 102, 103, 104, 105, 106, 107, 108, 109, 110, 111>>

\* buildCouplingOperator: row and col of the entries of one node, in the
\* order of "for i in range(6)"
entriesOf(node, localNodeIndex) ==
    [n \in 1..countFree(node.fixedDOF) |->
        LET i == CHOOSE d \in 1..6 :
                    /\ node.fixedDOF[d] = 0
                    /\ Cardinality({e \in 1..(d - 1) : node.fixedDOF[e] = 0}) = n - 1
        IN  <<node.globalFreeDOFIndex[i], localNodeIndex * 6 + (i - 1)>>]

\* buildCouplingOperator, loop body for one node ; raised for the IndexError
\* of point.localTag[0] and the ValueError of originalTags.index
couplingNode(st, node) ==
    IF node.indexBoundary = None \/ node.indexBoundary \in SeqRange(st.listBndNodes)
    THEN st
    ELSE IF node.localTag = <<>> \/ node.localTag[1] \notin SeqRange(couplingTags)
    THEN [st EXCEPT !.raised = TRUE]
    ELSE [raised |-> FALSE,
          listBndNodes |-> Append(st.listBndNodes, node.indexBoundary),
          entries |-> st.entries \o entriesOf(node, IndexOf(couplingTags, node.localTag[1]) - 1)]

RECURSIVE couplingNodes(_, _, _, _)
couplingNodes(order, n, st, P) ==
    IF st.raised \/ n > Len(order) THEN st
    ELSE couplingNodes(order, n + 1, couplingNode(st, P[order[n]]), P)

\* scipy.sparse.coo_matrix((data, (row, col)), shape): the entries as given ;
\* raised when a row is None (TypeError) and when an entry is outside the
\* shape (ValueError)
coo_matrix(st, nbFreeDOF) ==
    IF st.raised
       \/ \E n \in DOMAIN st.entries :
             \/ st.entries[n][1] = None
             \/ st.entries[n][1] >= nbFreeDOF
             \/ st.entries[n][2] >= Len(st.listBndNodes) * 6
    THEN [raised |-> TRUE, matB |-> [shape |-> <<>>, entries |-> <<>>]]
    ELSE [raised |-> FALSE,
          matB |-> [shape |-> <<nbFreeDOF, Len(st.listBndNodes) * 6>>,
                    entries |-> st.entries]]

\* Cell.buildCouplingOperator ; matB the value for self.matB
buildCouplingOperator(cell, nbFreeDOF, P, B) ==
    coo_matrix(couplingNodes(nodeOrder(<<cell>>, B), 1,
                             [raised |-> FALSE, listBndNodes |-> <<>>, entries |-> <<>>], P),
               nbFreeDOF)

\* Lattice.buildCouplingOperatorForEachCells from the c-th cell on
RECURSIVE couplingCells(_, _, _, _, _)
couplingCells(st, c, nbFreeDOF, P, B) ==
    IF st.raised \/ c > Len(st.cells) THEN st
    ELSE LET r == buildCouplingOperator(st.cells[c], nbFreeDOF, P, B)
         IN  couplingCells(IF r.raised THEN [st EXCEPT !.raised = TRUE]
                           ELSE [st EXCEPT !.cells[c].matB = r.matB],
                           c + 1, nbFreeDOF, P, B)

\* Lattice.buildCouplingOperatorForEachCells, called after
\* setGlobalFreeDOFIndex
buildCouplingOperatorForEachCells ==
    /\ pc = "buildCouplingOperatorForEachCells"
    /\ \E st \in {couplingCells([raised |-> FALSE, cells |-> cells], 1, freeDOF,
                                pointObj, beamObj)} :
          /\ cells' = st.cells
          /\ pc' = IF st.raised THEN "raised" ELSE "buildLUSchurComplement"
    /\ UNCHANGED <<cfg, pointObj, beamObj, boundaryBox, occupancy_matrix,
                   maxIndexBoundary, freeDOF, arg, ret>>

Next ==
    \/ generateLattice
    \/ getMinMaxValues
    \/ defineBeamNodeIndex
    \/ defineCellIndex
    \/ defineCellNeighbours
    \/ setPointLocalTag
    \/ applyTagToAllPoint
    \/ simMethodOff
    \/ getAllAngles
    \/ setBeamNodeMod
    \/ defineNodeIndexBoundary
    \/ simulationPropertiesOff
    \/ reDefineBeamNodeIndex
    \/ getAllAnglesAgain
    \/ setBeamNodeModAgain
    \/ setBeamNodeModAlone

Spec == Init /\ [][Next]_vars

\* the largest number of grid cells of the lattices on which the calls that
\* follow the constructor are modelled
MaxCellsDOF == 2

\* the constructor on the lattices of at most MaxCellsDOF unit cells without
\* erased regions or periodicity, followed by the boundary-condition calls
InitDOF ==
    /\ Init
    /\ cfg.num_cells[1] * cfg.num_cells[2] * cfg.num_cells[3] <= MaxCellsDOF
    /\ cfg.cell_size[1] = Unit
    /\ cfg.eraser_blocks = <<>>
    /\ ~cfg.enable_periodicity

NextDOF ==
    \/ generateLattice
    \/ getMinMaxValues
    \/ defineBeamNodeIndex
    \/ defineCellIndex
    \/ defineCellNeighbours
    \/ setPointLocalTag
    \/ applyTagToAllPoint
    \/ simMethodOff
    \/ getAllAngles
    \/ setBeamNodeMod
    \/ defineNodeIndexBoundary
    \/ simulationPropertiesOff
    \/ applyBoundaryConditionsOnSurface
    \/ applyForceOnSurface
    \/ fixDOFOnSurface
    \/ applyBoundaryConditionsOnNode
    \/ fixDOFOnNode
    \/ setFreeDOF
    \/ setGlobalFreeDOFIndex
    \/ buildCouplingOperatorForEachCells

SpecDOF == InitDOF /\ [][NextDOF]_vars

\* the constructor on the lattices of at most MaxCellsDOF cells whose cells
\* have the size 0 or 1 along x: with the size 0 every beam of the template
\* that runs along x has coincident end points
InitDegenerate ==
    /\ pc = "generateLattice"
    /\ \E nx \in 1..MaxNumCellsX, ny \in 1..MaxNumCellsY, nz \in 1..MaxNumCellsZ,
          sx \in {0, Unit}, g \in GeomTypes, r \in Radii, per \in BOOLEAN :
          /\ nx * ny * nz <= MaxCellsDOF
          /\ cfg = [num_cells |-> <<nx, ny, nz>>,
                    cell_size |-> <<sx, Unit, Unit>>,
                    geom_types |-> g, radii |-> r,
                    enable_periodicity |-> per,
                    eraser_blocks |-> <<>>]
    /\ cells = <<>>
    /\ pointObj = <<>>
    /\ beamObj = <<>>
    /\ boundaryBox = <<>>
    /\ occupancy_matrix = [isNone |-> TRUE, at |-> <<>>]
    /\ maxIndexBoundary = None
    /\ freeDOF = None
    /\ arg = <<>>
    /\ ret = <<>>

NextDegenerate ==
    \/ generateLattice
    \/ getMinMaxValues
    \/ defineBeamNodeIndex
    \/ defineCellIndex
    \/ defineCellNeighbours
    \/ setPointLocalTag
    \/ applyTagToAllPoint
    \/ simMethodOff
    \/ getAllAngles
    \/ setBeamNodeMod
    \/ defineNodeIndexBoundary
    \/ simulationPropertiesOff

SpecDegenerate == InitDegenerate /\ [][NextDegenerate]_vars

\* ------------------------------ displacements, reaction forces and energy
\* the largest number of calls of applyDisplacementOnNodeList, and of
\* applyReactionForceOnNodeList, on one lattice
MaxNodeListCalls == 1

\* the vectors given to the two calls
displacementVector == <<2, 0, 0, 0, 0, 1>>
reactionForceVector == <<3, 0, 0, 0, 0, 5>>

\* the node lists given to the two calls, of one node: the first node of a
\* cell, or a node with an equal node in another object
NodeCoordinatesLists(cs, P, B) ==
    {<<PointHash(P[i])>> :
        i \in {B[cs[c].beams[1]].point1 : c \in DOMAIN cs}
              \cup {i \in UNION {cellPointRefs(cs[c], B) : c \in DOMAIN cs} :
                      \E j \in UNION {cellPointRefs(cs[c], B) : c \in DOMAIN cs} :
                         j # i /\ PointEq(P[i], P[j])}}

\* "match = np.all(nodeCoordinatesArray == nodeCoord, axis=1)": the rows of
\* the list equal to the coordinates of the node
match(nodeCoordinatesList, node) ==
    {n \in DOMAIN nodeCoordinatesList : nodeCoordinatesList[n] = PointHash(node)}

\* the number of times the loops "for cell ... for beam ... for node" meet
\* the object i
timesMet(order, i) == Cardinality({m \in DOMAIN order : order[m] = i})

\* Point.setReactionForce, called k times with the same vector
setReactionForce(p, reactionForce, k) ==
    [p EXCEPT !.reactionForceValue = [d \in 1..6 |-> @[d] + k * reactionForce[d]]]

\* Lattice.applyReactionForceOnNodeList
applyReactionForceOnNodeListOn(reactionForce, nodeCoordinatesList, cs, P, B) ==
    [i \in DOMAIN P |->
        IF match(nodeCoordinatesList, P[i]) # {}
        THEN setReactionForce(P[i], reactionForce[SetMin(match(nodeCoordinatesList, P[i]))],
                              timesMet(nodeOrder(cs, B), i))
        ELSE P[i]]

\* Lattice.applyDisplacementOnNodeList
applyDisplacementOnNodeListOn(displacement, nodeCoordinatesList, cs, P, B) ==
    [i \in DOMAIN P |->
        IF match(nodeCoordinatesList, P[i]) # {} /\ timesMet(nodeOrder(cs, B), i) > 0
        THEN [P[i] EXCEPT !.displacementValue =
                              displacement[SetMin(match(nodeCoordinatesList, P[i]))],
                          !.fixedDOF = <<1, 1, 1, 1, 1, 1>>]
        ELSE P[i]]

\* the calls named name that the lattice has received
callsOf(name) == {n \in DOMAIN arg : arg[n].call = name}

applyReactionForceOnNodeList ==
    /\ pc = "ready"
    /\ Cardinality(callsOf("applyReactionForceOnNodeList")) < MaxNodeListCalls
    /\ \E nodeCoordinatesList \in NodeCoordinatesLists(cells, pointObj, beamObj) :
          called([raised |-> FALSE,
                  P |-> applyReactionForceOnNodeListOn(<<reactionForceVector>>,
                           nodeCoordinatesList, cells, pointObj, beamObj)],
                 "applyReactionForceOnNodeList", <<>>, nodeCoordinatesList,
                 <<reactionForceVector>>, <<>>)

applyDisplacementOnNodeList ==
    /\ pc = "ready"
    /\ Cardinality(callsOf("applyDisplacementOnNodeList")) < MaxNodeListCalls
    /\ \E nodeCoordinatesList \in NodeCoordinatesLists(cells, pointObj, beamObj) :
          called([raised |-> FALSE,
                  P |-> applyDisplacementOnNodeListOn(<<displacementVector>>,
                           nodeCoordinatesList, cells, pointObj, beamObj)],
                 "applyDisplacementOnNodeList", <<>>, nodeCoordinatesList,
                 <<displacementVector>>, <<>>)

\* Point.calculatePointEnergy
calculatePointEnergy(p) ==
    SumTo([i \in 1..6 |-> p.displacementValue[i] * p.reactionForceValue[i]], 6)

\* Cell.getInternalEnergy: "for beam in self.beams: for point in
\* [beam.point1, beam.point2]" from the m-th node of order on
RECURSIVE internalEnergyFrom(_, _, _, _)
internalEnergyFrom(order, m, P, internalEnergy) ==
    IF internalEnergy \in Int /\ m > Len(order) THEN internalEnergy
    ELSE internalEnergyFrom(order, m + 1, P,
            IF P[order[m]].indexBoundary # None
            THEN internalEnergy + calculatePointEnergy(P[order[m]])
            ELSE internalEnergy)

getInternalEnergyOf(cell, P, B) == internalEnergyFrom(nodeOrder(<<cell>>, B), 1, P, 0)

\* a call of cell.getInternalEnergy() on a cell of the lattice ; ret.value is
\* the returned energy
getInternalEnergy ==
    /\ pc = "ready"
    /\ \E c \in DOMAIN cells :
          /\ ret' = [raised |-> FALSE, cell |-> c,
                     value |-> getInternalEnergyOf(cells[c], pointObj, beamObj)]
    /\ pc' = "getInternalEnergy"
    /\ UNCHANGED <<latticeVars, arg>>

\* Lattice.getGlobalReactionForce, "for beam in cell.beams: for node in ..."
\* of one cell from the m-th node of order on ; st has the dictionary and
\* nodeIndexProcessed
RECURSIVE reactionForceNodes(_, _, _, _)
reactionForceNodes(order, m, P, st) ==
    IF st.nodeIndexProcessed \subseteq Int /\ m > Len(order) THEN st
    ELSE reactionForceNodes(order, m + 1, P,
            IF P[order[m]].indexBoundary # None
               /\ P[order[m]].index \notin st.nodeIndexProcessed
            THEN [globalReactionForce |->
                     [st.globalReactionForce EXCEPT ![P[order[m]].indexBoundary] =
                         [d \in 1..6 |-> @[d] + P[order[m]].reactionForceValue[d]]],
                  nodeIndexProcessed |-> st.nodeIndexProcessed \cup {P[order[m]].index}]
            ELSE st)

\* Lattice.getGlobalReactionForce (appliedForceAdded False), from cell c on
RECURSIVE reactionForceCells(_, _, _, _, _)
reactionForceCells(cs, c, P, B, globalReactionForce) ==
    IF c > Len(cs) THEN globalReactionForce
    ELSE reactionForceCells(cs, c + 1, P, B,
            reactionForceNodes(nodeOrder(<<cs[c]>>, B), 1, P,
                               [globalReactionForce |-> globalReactionForce,
                                nodeIndexProcessed |-> {}]).globalReactionForce)

\* a call of Lattice.getGlobalReactionForce() ; range(None + 1) raises
\* TypeError on a lattice without boundary indices
getGlobalReactionForce ==
    /\ pc = "ready"
    /\ ret' = IF maxIndexBoundary = None
              THEN [raised |-> TRUE, cell |-> 0, value |-> <<>>]
              ELSE [raised |-> FALSE, cell |-> 0,
                    value |-> reactionForceCells(cells, 1, pointObj, beamObj,
                                 [b \in 0..maxIndexBoundary |-> <<0, 0, 0, 0, 0, 0>>])]
    /\ pc' = "getGlobalReactionForce"
    /\ UNCHANGED <<latticeVars, arg>>

\* the constructor on the lattices of InitDOF, followed by the calls that set
\* displacements and reaction forces and by those that read them
NextForce ==
    \/ generateLattice
    \/ getMinMaxValues
    \/ defineBeamNodeIndex
    \/ defineCellIndex
    \/ defineCellNeighbours
    \/ setPointLocalTag
    \/ applyTagToAllPoint
    \/ simMethodOff
    \/ getAllAngles
    \/ setBeamNodeMod
    \/ defineNodeIndexBoundary
    \/ simulationPropertiesOff
    \/ applyReactionForceOnNodeList
    \/ applyDisplacementOnNodeList
    \/ getInternalEnergy
    \/ getGlobalReactionForce

SpecForce == InitDOF /\ [][NextForce]_vars

\* --------------------------------------------- claims C1, C2, C4, C7-C10
\* the objects of the lattice: the beams in the lists of the cells and their
\* end points
liveBeams == UNION {SeqRange(cells[c].beams) : c \in DOMAIN cells}
livePoints == UNION {{beamObj[r].point1, beamObj[r].point2} : r \in liveBeams}

\* the states in which a run of defineBeamNodeIndex has finished
AfterIndexing ==
    {"defineCellIndex", "defineCellNeighbours", "setPointLocalTag", "applyTagToAllPoint",
     "simMethod", "setBeamNodeMod", "simulationProperties", "ready", "reindexed"}

penalized == \E i \in livePoints : pointObj[i].nodeMod

\* C1 (as claimed): after every run of the indexing pass and of
\* defineNodeIndexBoundary, two nodes of the lattice with the same coordinates
\* carry the same global index and the same boundary index.
Cex_C1_SameCoordinatesSameIndex ==
    pc \in AfterIndexing =>
        \A i, j \in livePoints :
            PointEq(pointObj[i], pointObj[j]) =>
                /\ pointObj[i].index = pointObj[j].index
                /\ pointObj[i].indexBoundary = pointObj[j].indexBoundary

endPair(r) == {PointHash(pointObj[beamObj[r].point1]), PointHash(pointObj[beamObj[r].point2])}

\* C2 (as claimed): after the indexing pass two nodes with different
\* coordinates have different indices, two beams with different unordered end
\* point pairs have different indices, and two beams with the same two end
\* point coordinates, in whatever order, have one index.
Cex_C2_OneIndexPerEntity ==
    pc \in AfterIndexing =>
        /\ \A i, j \in livePoints :
              ~PointEq(pointObj[i], pointObj[j]) => pointObj[i].index # pointObj[j].index
        /\ \A r, q \in liveBeams :
              (endPair(r) = endPair(q)) <=> (beamObj[r].index = beamObj[q].index)

\* C4: a run of defineBeamNodeIndex (the first one, the one that ends
\* setBeamNodeMod, a later call) changes the index of no node and no beam that
\* has one, and a run on a lattice in which everything is indexed changes
\* no point and no beam at all.
Thm_C4_IndexingIdempotent ==
    [][(defineBeamNodeIndex \/ setBeamNodeMod \/ reDefineBeamNodeIndex) =>
          /\ \A i \in DOMAIN pointObj :
                pointObj[i].index # None => pointObj'[i].index = pointObj[i].index
          /\ \A r \in DOMAIN beamObj :
                beamObj[r].index # None => beamObj'[r].index = beamObj[r].index
          /\ (reDefineBeamNodeIndex /\ \A i \in livePoints : pointObj[i].index # None
                                    /\ \A r \in liveBeams : beamObj[r].index # None)
                => (pointObj' = pointObj /\ beamObj' = beamObj)]_vars

\* a run on the lattice that the penalization rewriting extended and indexed
Wit_C4_ReindexedPenalized ==
    /\ pc = "reindexed"
    /\ penalized
    /\ \A i \in livePoints : pointObj[i].index # None
    /\ \A r \in liveBeams : beamObj[r].index # None

cellAt(pos) == {c \in DOMAIN cells : cells[c].posCell = pos}

axisStep(pos, a, d) == [pos EXCEPT ![a] = @ + d]

\* C7 (as claimed): without periodicity, after defineCellNeighbours the
\* neighbours of a cell are exactly the cells one grid step away along one
\* axis, whatever the cell size.
Cex_C7_FaceNeighbours ==
    (pc = "setPointLocalTag" /\ ~cfg.enable_periodicity) =>
        \A c \in DOMAIN cells :
            /\ SeqRange(cells[c].neighbourCells) =
                  UNION {cellAt(axisStep(cells[c].posCell, a, d)) : a \in 1..3, d \in {-1, 1}}
            /\ c \notin SeqRange(cells[c].neighbourCells)
            /\ Len(cells[c].neighbourCells) <= 6

wrapStep(pos, a, d) == [pos EXCEPT ![a] = (@ + d) % cfg.num_cells[a]]

\* C8 (as claimed): with periodicity and nothing erased, after
\* defineCellNeighbours every cell has as neighbours the cells one grid step
\* away along each axis, the step from the last index leading to the first
\* index and back, whatever the cell size.
Cex_C8_PeriodicNeighbours ==
    (pc = "setPointLocalTag" /\ cfg.enable_periodicity /\ cfg.eraser_blocks = <<>>) =>
        \A c \in DOMAIN cells : \A a \in 1..3, d \in {-1, 1} :
            cellAt(wrapStep(cells[c].posCell, a, d)) \subseteq SeqRange(cells[c].neighbourCells)

\* the grid indices along axis a of the cells in the row through pos
rowOf(pos, a) ==
    {cells[c].posCell[a] : c \in {x \in DOMAIN cells :
        \A o \in (1..3) \ {a} : cells[x].posCell[o] = pos[o]}}

rowStep(pos, a, d) ==
    LET lo == SetMin(rowOf(pos, a))
        hi == SetMax(rowOf(pos, a))
    IN  [pos EXCEPT ![a] = IF @ + d > hi THEN lo ELSE IF @ + d < lo THEN hi ELSE @ + d]

\* C9 (as claimed): with periodicity and erased regions, a step of a cell
\* along an axis that leaves the occupied range of its row arrives at the
\* occupied cell at the other end of that row, a step inside the range at the
\* next cell if there is one, and no error is raised.
Cex_C9_PeriodicErasedRow ==
    (pc = "setPointLocalTag" /\ cfg.enable_periodicity /\ cfg.eraser_blocks # <<>>) =>
        \A c \in DOMAIN cells : \A a \in 1..3, d \in {-1, 1} :
            cellAt(rowStep(cells[c].posCell, a, d)) \subseteq SeqRange(cells[c].neighbourCells)

between(v, a, b) == (a <= v /\ v <= b) \/ (b <= v /\ v <= a)

\* C10 (as claimed): after setBeamNodeMod the three beams that replace a beam
\* have lengths that sum to the length of that beam, and the two new nodes lie
\* between its end points.
Cex_C10_LengthPreserved ==
    (pc = "simulationProperties" /\ penalized) =>
        \A c \in DOMAIN cells : \A n \in 1..(Len(cells[c].beams) \div 3) :
            LET b1 == beamObj[cells[c].beams[3 * n - 2]]
                b2 == beamObj[cells[c].beams[3 * n - 1]]
                b3 == beamObj[cells[c].beams[3 * n]]
                p == pointObj[b1.point1]
                q == pointObj[b3.point2]
            IN  /\ b1.length + b2.length + b3.length = getLength(p, q)
                /\ \A e \in {pointObj[b1.point2], pointObj[b3.point1]} :
                      /\ between(e.x, p.x, q.x)
                      /\ between(e.y, p.y, q.y)
                      /\ between(e.z, p.z, q.z)

\* ---------------------------------------------------------------- claim C11
\* the n-th beam of a cell before setBeamNodeMod is replaced by the beams at
\* 3n-2, 3n-1, 3n of the cell after it
chained(b, b1, b2, b3) ==
    /\ b1.point1 = b.point1 /\ b1.point2 = b2.point1
    /\ b2.point2 = b3.point1 /\ b3.point2 = b.point2
    /\ b1.point2 > Len(pointObj) /\ b2.point2 > Len(pointObj)
    /\ b1.point2 # b2.point2
    /\ b1.modBeam /\ ~b2.modBeam /\ b3.modBeam
    /\ \A s \in {b1, b2, b3} :
          s.radius = b.radius /\ s.material = b.material /\ s.type = b.type

beamSet(cs, P, B) ==
    UNION {{beamKey(P, B[cs[c].beams[n]]) : n \in DOMAIN cs[c].beams} : c \in DOMAIN cs}

nodeSet(cs, P, B) == UNION {{k[1], k[2]} : k \in beamSet(cs, P, B)}

\* C12 (as claimed): a call of getAllAngles followed by setBeamNodeMod, or of
\* setBeamNodeMod alone, on a lattice that the constructor has rewritten
\* leaves the set of beams and the set of nodes as they were.
Cex_C12_RewritingGuarded ==
    [][(pc \in {"ready", "setBeamNodeModAgain"}
        /\ pc' \in {"setBeamNodeModAgain", "rewrittenTwice", "raisedAgain",
                     "rewrittenAlone", "raisedAlone"}) =>
          /\ beamSet(cells', pointObj', beamObj') = beamSet(cells, pointObj, beamObj)
          /\ nodeSet(cells', pointObj', beamObj') = nodeSet(cells, pointObj, beamObj)]_vars

\* ------------------------------------------------------------ claims C3-C6
\* C3 (as claimed): Beam(p1, p2) equals Beam(p2, p1), both have the same hash,
\* and a set keyed by beams holds the two as one entry.
Cex_C3_BeamUndirected ==
    pc = "compared" => (ret.eq /\ ret.sameHash /\ ret.entries = 1)

\* where a point sits on one axis of a box
AxisPos(v, lo, hi) ==
    IF v = lo THEN "min" ELSE IF v = hi THEN "max"
    ELSE IF lo < v /\ v < hi THEN "in" ELSE "out"

Situation(p, b) ==
    <<AxisPos(p.x, b[1], b[2]), AxisPos(p.y, b[3], b[4]), AxisPos(p.z, b[5], b[6])>>

OnPlaneCount(p, b) ==
    Cardinality({i \in 1..3 : Situation(p, b)[i] \in {"min", "max"}})

InsideCount(p, b) ==
    Cardinality({i \in 1..3 : Situation(p, b)[i] = "in"})

FaceIds == 10..15
EdgeIds == 100..111
CornerIds == 1000..1007

\* C5: for every point and every box (degenerate boxes and outside points
\* included) tagPoint returns at most one tag, and a corner tag never comes
\* together with an edge tag or a face tag.
Thm_C5_TagExclusive ==
    pc = "tagged" =>
        /\ Len(ret.tag) <= 1
        /\ (SeqRange(ret.tag) \cap CornerIds # {}
                => SeqRange(ret.tag) \cap (EdgeIds \cup FaceIds) = {})

Wit_C5_DegenerateCorner ==
    /\ pc = "tagged"
    /\ arg.box[1] = arg.box[2]
    /\ ret.tag = <<1000>>

NonDegenerate(b) == b[1] < b[2] /\ b[3] < b[4] /\ b[5] < b[6]

\* C6: for a non-degenerate box tagPoint gives a face id iff the point is on
\* one plane and strictly inside on the two other axes, an edge id iff on two
\* planes and strictly inside on the third, a corner id iff on three planes,
\* and no tag otherwise; two different situations never get the same id; the
\* point is the same after the call.
Thm_C6_TagClassification ==
    (pc = "tagged" /\ NonDegenerate(arg.box)) =>
        LET p == arg.point
            b == arg.box
            n == OnPlaneCount(p, b)
            m == InsideCount(p, b)
        IN  /\ (n = 1 /\ m = 2) <=> (Len(ret.tag) = 1 /\ ret.tag[1] \in FaceIds)
            /\ (n = 2 /\ m = 1) <=> (Len(ret.tag) = 1 /\ ret.tag[1] \in EdgeIds)
            /\ (n = 3) <=> (Len(ret.tag) = 1 /\ ret.tag[1] \in CornerIds)
            /\ (n + m < 3 \/ m = 3) <=> (ret.tag = <<>>)
            /\ \A x \in TagCoords, y \in TagCoords, z \in TagCoords :
                 LET q == Point(x, y, z)
                 IN  (ret.tag # <<>> /\ Situation(q, b) # Situation(p, b))
                        => tagPoint(q, b) # ret.tag
            /\ ret.point = arg.point

Wit_C6_EdgeTag ==
    /\ pc = "tagged"
    /\ NonDegenerate(arg.box)
    /\ ret.tag = <<107>>


\* the points that the beams of the cells refer to
latticeNodes == UNION {cellPointRefs(cells[c], beamObj) : c \in DOMAIN cells}

\* C13: on a constructed lattice, with or without boundary indices,
\* applyBoundaryConditionsOnSurface(["Xmin"], [v], [d]) returns, sets
\* displacementValue[d] = v and fixedDOF[d] = 1 on every node whose x is the
\* xMin of the lattice, and leaves displacementValue[d] and fixedDOF[d] of
\* every node whose x differs from xMin as they were.
Cex_C13_XminOnly ==
    [][(/\ Len(arg') = Len(arg) + 1
        /\ arg'[Len(arg')].call = "applyBoundaryConditionsOnSurface"
        /\ arg'[Len(arg')].surfaceNames = <<"Xmin">>
        /\ Len(arg'[Len(arg')].DOF) = 1)
       => /\ ~ret'.raised
          /\ \A i \in latticeNodes :
                LET d == arg'[Len(arg')].DOF[1] + 1
                    v == arg'[Len(arg')].value[1]
                IN  IF pointObj[i].x = boundaryBox[1]
                    THEN /\ pointObj'[i].displacementValue[d] = v
                         /\ pointObj'[i].fixedDOF[d] = 1
                    ELSE /\ pointObj'[i].displacementValue[d] = pointObj[i].displacementValue[d]
                         /\ pointObj'[i].fixedDOF[d] = pointObj[i].fixedDOF[d]]_vars


\* the uses of the free-DOF indices: <<c, n, d, k>> when a node of cell c
\* with boundary index n has the free-DOF index k at dof d
indexUses ==
    UNION {UNION {{<<c, pointObj[i].indexBoundary, d, pointObj[i].globalFreeDOFIndex[d]>> :
                      d \in {e \in 1..6 : pointObj[i].globalFreeDOFIndex[e] # None}} :
                  i \in {j \in cellPointRefs(cells[c], beamObj) :
                            pointObj[j].indexBoundary # None}} :
           c \in DOMAIN cells}

\* the free-DOF indices that setGlobalFreeDOFIndex has given to nodes
assignedIndices == {u[4] : u \in indexUses}

\* C14 as stated: after the boundary conditions, setFreeDOF and
\* setGlobalFreeDOFIndex, every assigned free-DOF index is used by exactly one
\* (cell, node, dof) triple (there are as many uses as indices) and the number
\* of assigned indices is freeDOF.
Cex_C14_OneTriplePerIndex ==
    pc = "buildCouplingOperatorForEachCells" =>
        /\ Cardinality(indexUses) = Cardinality(assignedIndices)
        /\ Cardinality(assignedIndices) = freeDOF

\* C14 amended: every assigned free-DOF index is used by exactly one
\* (node, dof) pair, the same pair in every cell that references the node
\* (there are as many used pairs as indices), and the number of assigned
\* indices is freeDOF.
Thm_C14_OnePairPerIndex ==
    pc = "buildCouplingOperatorForEachCells" =>
        /\ Cardinality({<<u[2], u[3], u[4]>> : u \in indexUses})
              = Cardinality(assignedIndices)
        /\ Cardinality(assignedIndices) = freeDOF

\* two cells share a boundary node with a free-DOF index, after a
\* boundary condition has fixed a DOF of a boundary node
Wit_C14_SharedNodeIndexed ==
    /\ pc = "buildCouplingOperatorForEachCells"
    /\ freeDOF > 0
    /\ {i \in latticeNodes : pointObj[i].fixedDOF # <<0, 0, 0, 0, 0, 0>>
                             /\ pointObj[i].indexBoundary # None} # {}
    /\ Cardinality(indexUses) > Cardinality({<<u[2], u[3], u[4]>> : u \in indexUses})


\* the boundary nodes of a cell
boundaryNodesOf(cell) ==
    {i \in cellPointRefs(cell, beamObj) : pointObj[i].indexBoundary # None}

\* the entries (row, column) of the selection matrix of a cell: one for each
\* free DOF d of each boundary node, at the row of its global free-DOF index
\* and the column 6 * (position of the local tag in originalTags) + d
selectionOf(cell) ==
    UNION {{<<pointObj[i].globalFreeDOFIndex[d],
              6 * (IndexOf(originalTags, pointObj[i].localTag[1]) - 1) + (d - 1)>> :
               d \in {e \in 1..6 : pointObj[i].fixedDOF[e] = 0}} :
           i \in boundaryNodesOf(cell)}

\* C15: buildCouplingOperatorForEachCells returns and gives every cell a
\* matrix of shape (freeDOF, 6 * number of distinct boundary nodes) with
\* exactly one entry for each free DOF of each distinct boundary node, at
\* row = global free-DOF index and column = 6 * (position of the local tag in
\* the 26-tag order) + dof, none for fixed DOFs, all inside the shape,
\* whichever local tags the boundary nodes carry.
Cex_C15_SelectionMatrix ==
    [][pc = "buildCouplingOperatorForEachCells" =>
        /\ pc' = "buildLUSchurComplement"
        /\ \A c \in DOMAIN cells :
              /\ cells'[c].matB.shape =
                    <<freeDOF, 6 * Cardinality({pointObj[i].indexBoundary :
                                                   i \in boundaryNodesOf(cells[c])})>>
              /\ SeqRange(cells'[c].matB.entries) = selectionOf(cells[c])
              /\ Len(cells'[c].matB.entries) = Cardinality(selectionOf(cells[c]))
              /\ \A e \in SeqRange(cells'[c].matB.entries) :
                    /\ e[1] \in 0..(cells'[c].matB.shape[1] - 1)
                    /\ e[2] \in 0..(cells'[c].matB.shape[2] - 1)]_vars


\* C16: the sum over the cells of B * Sref * transpose(B) is a symmetric
\* matrix of freeDOF rows and freeDOF columns when every Sref is symmetric,
\* for every coupling operator B and every number of cells.
Thm_C16_PreconditionerSymmetric ==
    (pc \in {"buildPreconditioner", "returned"} /\ arg.cells >= 1 /\ arg.symmetric) =>
        /\ Len(arg.globalSchurComplement) = arg.freeDOF
        /\ \A i \in 1..arg.freeDOF : Len(arg.globalSchurComplement[i]) = arg.freeDOF
        /\ arg.globalSchurComplement = transpose(arg.globalSchurComplement)

\* two cells with symmetric Sref have been added and the sum is not diagonal
Wit_C16_TwoCellsCoupled ==
    /\ pc = "buildPreconditioner"
    /\ arg.cells = 2
    /\ arg.symmetric
    /\ arg.freeDOF = 2
    /\ arg.globalSchurComplement[1][2] # 0

Cex_C18_UnknownTemplateRaises ==
    (pc = "generated" /\ arg.latticeType \notin (-1)..LastGeometryKey) =>
        /\ ret.raised
        /\ ret.template = <<>>
        /\ ret.beams = <<>>


\* the fields that the boundary-condition calls write, per node of the lattice
constraintState(P) ==
    [i \in latticeNodes |-> <<P[i].fixedDOF, P[i].displacementValue, P[i].appliedForce>>]

\* the node indices that some node of the lattice carries
carriedIndices == {pointObj[i].index : i \in latticeNodes} \ {None}

\* C19: a boundary-condition call that raises leaves fixedDOF,
\* displacementValue and appliedForce of every node unchanged; a surface call
\* with an invalid surface name raises; on an indexed lattice a node call with
\* an index below 0 or above every carried index raises; and a node call
\* with an index that some node carries does not raise.
Cex_C19_UsageErrors ==
    [][(Len(arg') = Len(arg) + 1) =>
         LET call == arg'[Len(arg')]
         IN  /\ ret'.raised =>
                   constraintState(pointObj') = constraintState(pointObj)
             /\ (\E n \in DOMAIN call.surfaceNames :
                    call.surfaceNames[n] \notin
                       {"Xmin", "Xmax", "Ymin", "Ymax", "Zmin", "Zmax"}) => ret'.raised
             /\ (/\ carriedIndices # {}
                 /\ \E n \in DOMAIN call.nodeList :
                       \/ call.nodeList[n] < 0
                       \/ call.nodeList[n] > SetMax(carriedIndices)) => ret'.raised
             /\ (/\ call.nodeList # <<>>
                 /\ \A n \in DOMAIN call.nodeList :
                       call.nodeList[n] \in carriedIndices) => ~ret'.raised]_vars


\* the beams of the lattice with coincident end points
coincidentBeams ==
    {r \in liveBeams : PointEq(pointObj[beamObj[r].point1], pointObj[beamObj[r].point2])}

\* the end of getAllAngles on one beam, from the results l1, l2 of its two
\* calls of getListAngleBeam: "ZeroDivisionError" when an angle divides by a
\* zero norm and no pair of beams is unconnected, "returned" when setAngle is
\* reached, "raised" for the other exceptions
angleOutcomeFrom(l1, l2) ==
    IF \E ra \in l1 \cup l2 : ra[2] = NotConnected THEN "raised"
    ELSE IF \E ra \in l1 \cup l2 : ra[2] = ZeroNorm THEN "ZeroDivisionError"
    ELSE IF angleList(findMinAngle(l1), findMinAngle(l2)) = <<>> THEN "raised"
    ELSE "returned"

\* the end of getAllAngles on the n-th beam of cell c of the lattice
angleOutcome(cs, c, n) ==
    angleOutcomeFrom(
        getListAngleBeam(beamObj[cs[c].beams[n]],
                         connectedTo(pointObj[beamObj[cs[c].beams[n]].point1],
                                     beamListOf(cs, cs[c].neighbourCells, pointObj, beamObj),
                                     pointObj, beamObj, cfg.enable_periodicity),
                         pointObj, beamObj, cfg.enable_periodicity),
        getListAngleBeam(beamObj[cs[c].beams[n]],
                         connectedTo(pointObj[beamObj[cs[c].beams[n]].point2],
                                     beamListOf(cs, cs[c].neighbourCells, pointObj, beamObj),
                                     pointObj, beamObj, cfg.enable_periodicity),
                         pointObj, beamObj, cfg.enable_periodicity))

\* getAllAngles on the lattice ends in a ZeroDivisionError: the first beam,
\* in the order of the loops, on which it does not return divides by a zero
\* norm
anglePassDividesByZero ==
    \E c \in DOMAIN cells : \E n \in DOMAIN cells[c].beams :
        /\ angleOutcome(appendSelf(cells), c, n) = "ZeroDivisionError"
        /\ \A c2 \in 1..c : \A n2 \in DOMAIN cells[c2].beams :
              (c2 < c \/ n2 < n) => angleOutcome(appendSelf(cells), c2, n2) = "returned"

boundaryObjects(cell) ==
    {i \in cellPointRefs(cell, beamObj) : pointObj[i].indexBoundary # None}

oneObjectPerNode(cell) ==
    \A i, j \in boundaryObjects(cell) :
        (pointObj[i].indexBoundary = pointObj[j].indexBoundary
           \/ PointEq(pointObj[i], pointObj[j])) => i = j

\* the sum over the objects of S of the dot product of displacement and
\* reaction force
RECURSIVE dotSum(_)
dotSum(S) ==
    IF S = {} THEN 0
    ELSE calculatePointEnergy(pointObj[CHOOSE i \in S : TRUE])
            + dotSum(S \ {CHOOSE i \in S : TRUE})

\* C21: the energy returned by Cell.getInternalEnergy is one half of the sum,
\* over the distinct boundary nodes of the cell, of the dot product of the
\* node's displacement and reaction force (stated as twice the energy being
\* the sum).
Cex_C21_HalfSumOverNodes ==
    (pc = "getInternalEnergy" /\ oneObjectPerNode(cells[ret.cell])) =>
        2 * ret.value = dotSum(boundaryObjects(cells[ret.cell]))


\* the reaction forces that cell c has for the node with boundary index b:
\* those of the objects of the cell that carry b, zero when there is none
cellReactionForces(c, b) ==
    IF \E i \in boundaryObjects(cells[c]) : pointObj[i].indexBoundary = b
    THEN {pointObj[i].reactionForceValue :
             i \in {j \in boundaryObjects(cells[c]) : pointObj[j].indexBoundary = b}}
    ELSE {<<0, 0, 0, 0, 0, 0>>}

\* the component-wise sums of one reaction force per cell, for the cells c,
\* c + 1, ... and the node with boundary index b
RECURSIVE summedReactionForces(_, _)
summedReactionForces(c, b) ==
    IF c > Len(cells) THEN {<<0, 0, 0, 0, 0, 0>>}
    ELSE {[d \in 1..6 |-> f[d] + g[d]] :
             f \in cellReactionForces(c, b), g \in summedReactionForces(c + 1, b)}

\* C22: on a lattice with boundary indices getGlobalReactionForce() returns a
\* dictionary with the keys 0..maxIndexBoundary whose value at b is the sum,
\* over the cells with a node of boundary index b, of the reaction force of
\* that node in the cell, one contribution per cell, and it modifies no node.
Cex_C22_SumPerCell ==
    [][(pc' = "getGlobalReactionForce" /\ pc = "ready" /\ maxIndexBoundary # None)
       => /\ ~ret'.raised
          /\ DOMAIN ret'.value = 0..maxIndexBoundary
          /\ \A b \in 0..maxIndexBoundary : ret'.value[b] \in summedReactionForces(1, b)
          /\ pointObj' = pointObj]_vars

\* ------------------------------------- constraints on surfaces of chosen cells
\* Lattice.findPointOnLatticeSurfaceComplex ; raised for its ValueErrors, for
\* the TypeError of set.intersection() without argument, and for the
\* ValueError of Cell.getPointOnSurface on a name that is not one of the six
\* faces: Lattice.getCellSurface calls it with each name of surfaceNamesCell
\* on the first cell, the loop on the cells calls it with each name of
\* surfaceNamePoint on the first cell of cellList
findPointOnLatticeSurfaceComplex(surfaceNamesCell, surfaceNamePoint, cs, P, B, box) ==
    LET faces == {"Xmin", "Xmax", "Ymin", "Ymax", "Zmin", "Zmax"}
        valid_surfaces == faces \cup {"Xmid", "Ymid", "Zmid"}
        failed == [raised |-> TRUE, pointSet |-> {}]
    IN  IF \E n \in DOMAIN surfaceNamesCell : surfaceNamesCell[n] \notin valid_surfaces
        THEN failed
        ELSE IF \E n \in DOMAIN surfaceNamesCell : surfaceNamesCell[n] \notin faces
        THEN failed
        ELSE IF surfaceNamesCell = <<>>
        THEN failed
        ELSE LET cellList ==
                     {k \in {cs[c].index : c \in DOMAIN cs} :
                         \A n \in DOMAIN surfaceNamesCell :
                             k \in getCellSurface(surfaceNamesCell[n], cs, P, B, box)}
                 pointSet ==
                     UNION {{i \in cellPointRefs(cs[c], B) :
                                \A n \in DOMAIN surfaceNamePoint :
                                    i \in getPointOnSurface(cs[c], surfaceNamePoint[n], P, B)} :
                            c \in {d \in DOMAIN cs : cs[d].index \in cellList}}
             IN  IF cs[Len(cs)].index < SetMax(cellList \cup {-1})
                 THEN failed
                 ELSE IF cellList # {} /\ \E n \in DOMAIN surfaceNamePoint :
                                              surfaceNamePoint[n] \notin faces
                 THEN failed
                 ELSE IF surfaceNamePoint = <<>> \/ pointSet = {}
                 THEN failed
                 ELSE [raised |-> FALSE, pointSet |-> pointSet]

\* Lattice.applyAllConstraintsOnNodes with a surfaceNamePoint list
applyAllConstraintsOnNodesComplex(surfaceNames, surfaceNamePoint, value, DOF, type, cs, P, B, box) ==
    LET found == findPointOnLatticeSurfaceComplex(surfaceNames, surfaceNamePoint,
                                                  cs, P, B, box)
        indexBoundaryList == {P[i].indexBoundary : i \in found.pointSet}
        live == UNION {cellPointRefs(cs[c], B) : c \in DOMAIN cs}
    IN  IF found.raised THEN [raised |-> TRUE, P |-> P]
        ELSE [raised |-> FALSE,
              P |-> [i \in DOMAIN P |->
                        IF i \in live /\ P[i].indexBoundary \in indexBoundaryList
                        THEN constrainNode(P[i], value, DOF, type, 1) ELSE P[i]]]

\* the surface lists of the calls of the model: cell-selecting lists with the
\* three mid-planes, faces and an invalid name, point-selecting lists of faces
SurfaceNamesCellLists ==
    {<<"Xmid">>, <<"Ymid">>, <<"Zmid">>, <<"Xmin">>, <<"Xmax", "Ymid">>, <<"Top">>}

SurfaceNamePointLists == {<<"Xmin">>, <<"Xmax">>, <<"Xmin", "Zmin">>, <<"Xmid">>}

\* a call applyAllConstraintsOnNodes(surfaceNames, value, DOF, "Displacement",
\* surfaceNamePoint) on the constructed lattice
applyAllConstraintsOnNodesWithSurfaceNamePoint ==
    /\ pc = "ready"
    /\ Len(arg) < MaxConstraintCalls
    /\ \E surfaceNames \in SurfaceNamesCellLists,
          surfaceNamePoint \in SurfaceNamePointLists, c \in Constraints :
          \E r \in {applyAllConstraintsOnNodesComplex(surfaceNames, surfaceNamePoint,
                       c.value, c.DOF, "Displacement",
                       cells, pointObj, beamObj, boundaryBox)} :
              /\ pointObj' = r.P
              /\ ret' = [raised |-> r.raised]
              /\ arg' = Append(arg, [call |-> "applyAllConstraintsOnNodes",
                                     surfaceNames |-> surfaceNames,
                                     surfaceNamePoint |-> surfaceNamePoint,
                                     value |-> c.value, DOF |-> c.DOF])
              /\ UNCHANGED <<pc, cfg, cells, beamObj, boundaryBox, occupancy_matrix,
                             maxIndexBoundary, freeDOF>>

NextSurface ==
    \/ generateLattice
    \/ getMinMaxValues
    \/ defineBeamNodeIndex
    \/ defineCellIndex
    \/ defineCellNeighbours
    \/ setPointLocalTag
    \/ applyTagToAllPoint
    \/ simMethodOff
    \/ getAllAngles
    \/ setBeamNodeMod
    \/ defineNodeIndexBoundary
    \/ simulationPropertiesOff
    \/ applyAllConstraintsOnNodesWithSurfaceNamePoint

SpecSurface == InitDOF /\ [][NextSurface]_vars

\* C23: a call of applyAllConstraintsOnNodes whose cell-selecting surfaces are
\* mid-planes and whose surfaceNamePoint list holds face names does not raise
Cex_C23_MidPlaneAccepted ==
    [][(Len(arg') = Len(arg) + 1
        /\ arg'[Len(arg')].call = "applyAllConstraintsOnNodes"
        /\ \A n \in DOMAIN arg'[Len(arg')].surfaceNames :
              arg'[Len(arg')].surfaceNames[n] \in {"Xmid", "Ymid", "Zmid"}
        /\ \A m \in DOMAIN arg'[Len(arg')].surfaceNamePoint :
              arg'[Len(arg')].surfaceNamePoint[m]
                  \in {"Xmin", "Xmax", "Ymin", "Ymax", "Zmin", "Zmax"})
       => ~ret'.raised]_vars

\* ----------------------------------------------------- tags after construction
\* the references of the nodes of the beams of the cells
liveNodes == UNION {cellPointRefs(cells[c], beamObj) : c \in DOMAIN cells}

\* C24: when the construction of a lattice without erased regions has
\* finished, with or without the penalization pass, the tag of every node of
\* every beam is tagPoint(node, bounding box of the lattice) ; the empty tag
\* of the model stands for the tag None and for the tag [] of the code, so
\* that a node off the bounding box satisfies the formula with either
Cex_C24_TagsFromBoundingBox ==
    (pc = "ready" /\ cfg.eraser_blocks = <<>>) =>
        \A i \in liveNodes : pointObj[i].tag = tagPoint(pointObj[i], boundaryBox)

\* ------------------------------------------- angles of the connected beams
\* the constructor on the lattices of at most MaxCellsDOF cells of size 1 of
\* the templates Cubic, CubicV2 and CubicV4, with and without periodicity
InitPeriodic ==
    /\ pc = "generateLattice"
    /\ \E nx \in 1..MaxNumCellsX, ny \in 1..MaxNumCellsY, nz \in 1..MaxNumCellsZ,
          g \in GeomTypes \cup {11}, r \in Radii, per \in BOOLEAN :
          /\ nx * ny * nz <= MaxCellsDOF
          /\ cfg = [num_cells |-> <<nx, ny, nz>>,
                    cell_size |-> <<Unit, Unit, Unit>>,
                    geom_types |-> g, radii |-> r,
                    enable_periodicity |-> per,
                    eraser_blocks |-> <<>>]
    /\ cells = <<>>
    /\ pointObj = <<>>
    /\ beamObj = <<>>
    /\ boundaryBox = <<>>
    /\ occupancy_matrix = [isNone |-> TRUE, at |-> <<>>]
    /\ maxIndexBoundary = None
    /\ freeDOF = None
    /\ arg = <<>>
    /\ ret = <<>>

SpecPeriodic == InitPeriodic /\ [][NextDegenerate]_vars

\* getListAngleBeam on the n-th beam of cell c: the (radius, angle) of the
\* beam with the beams that getConnectedBeams reports for its two end points
connectedAngles(cs, c, n) ==
    getListAngleBeam(beamObj[cs[c].beams[n]],
                     connectedTo(pointObj[beamObj[cs[c].beams[n]].point1],
                                 beamListOf(cs, cs[c].neighbourCells, pointObj, beamObj),
                                 pointObj, beamObj, cfg.enable_periodicity),
                     pointObj, beamObj, cfg.enable_periodicity)
    \cup
    getListAngleBeam(beamObj[cs[c].beams[n]],
                     connectedTo(pointObj[beamObj[cs[c].beams[n]].point2],
                                 beamListOf(cs, cs[c].neighbourCells, pointObj, beamObj),
                                 pointObj, beamObj, cfg.enable_periodicity),
                     pointObj, beamObj, cfg.enable_periodicity)

\* C25: in the angle pass of a periodic lattice, the angle of a beam with
\* every beam reported as connected to one of its end points is computed:
\* "Beams are not connected at any point" is raised for no such pair
Cex_C25_ConnectedBeamsHaveAngle ==
    [][(pc = "simMethod" /\ pc' \in {"raised", "setBeamNodeMod"}
        /\ cfg.enable_periodicity)
       => \A c \in DOMAIN cells : \A n \in DOMAIN cells[c].beams :
             \A ra \in connectedAngles(appendSelf(cells), c, n) : ra[2] # NotConnected]_vars

\* ------------------------------------------------------- duplicated beams
\* Lattice.deleteDuplicatedBeams, "for beam in cell.beams" on the list beams
\* of one cell: the loop visits the positions i = 1, 2, ... of the list as it
\* is when the position is reached, and Cell.removeBeam removes from that
\* list while the loop runs ; beamList holds the values of the beams kept
RECURSIVE deleteDuplicatedIn(_, _, _, _, _)
deleteDuplicatedIn(beams, i, beamList, P, B) ==
    IF i > Len(beams)
    THEN [beams |-> beams, beamList |-> beamList]
    ELSE IF beamKey(P, B[beams[i]]) \notin beamList
    THEN deleteDuplicatedIn(beams, i + 1, beamList \cup {beamKey(P, B[beams[i]])}, P, B)
    ELSE deleteDuplicatedIn(removeBeam(beams, beams[i], P, B), i + 1, beamList, P, B)

\* Lattice.deleteDuplicatedBeams, "for cell in self.cells" from cell c on
RECURSIVE deleteDuplicatedBeamsOn(_, _, _, _, _)
deleteDuplicatedBeamsOn(cs, c, beamList, P, B) ==
    IF c > Len(cs) THEN cs
    ELSE LET r == deleteDuplicatedIn(cs[c].beams, 1, beamList, P, B)
         IN  deleteDuplicatedBeamsOn([cs EXCEPT ![c].beams = r.beams], c + 1,
                                     r.beamList, P, B)

\* Lattice.deleteDuplicatedBeams on the constructed lattice
deleteDuplicatedBeams ==
    /\ pc = "ready"
    /\ pc' = "deleteDuplicatedBeams"
    /\ cells' = deleteDuplicatedBeamsOn(cells, 1, {}, pointObj, beamObj)
    /\ UNCHANGED <<cfg, pointObj, beamObj, boundaryBox, occupancy_matrix,
                   maxIndexBoundary, freeDOF, arg, ret>>

\* Lattice.getEdgeIndex, the loops from the n-th beam of the cells on ; f the
\* references of the beams in loop order, beamAlreadyAdded as the set of the
\* values of its beams ; edgeIndex has at most one entry for each beam
RECURSIVE edgeIndexFrom(_, _, _, _, _, _)
edgeIndexFrom(f, n, edgeIndex, beamAlreadyAdded, P, B) ==
    IF Len(edgeIndex) <= Len(f) /\ n > Len(f) THEN edgeIndex
    ELSE IF beamKey(P, B[f[n]]) \notin beamAlreadyAdded
    THEN edgeIndexFrom(f, n + 1,
                       Append(edgeIndex, <<P[B[f[n]].point1].index, P[B[f[n]].point2].index>>),
                       beamAlreadyAdded \cup {beamKey(P, B[f[n]])}, P, B)
    ELSE edgeIndexFrom(f, n + 1, edgeIndex, beamAlreadyAdded, P, B)

\* Lattice.getEdgeIndex
getEdgeIndexOf(cs, P, B) == edgeIndexFrom(flatBeams(cs, 1), 1, <<>>, {}, P, B)

\* Lattice.getBeamType: beamAlreadyAdded stays empty, "beam not in
\* beamAlreadyAdded" holds for every beam of every cell
getBeamTypeOf(cs, B) ==
    [n \in DOMAIN flatBeams(cs, 1) |-> <<B[flatBeams(cs, 1)[n]].type>>]

\* Lattice.getAllBeamLength: beamAlreadyAdded stays empty as well
getAllBeamLengthOf(cs, B) ==
    [n \in DOMAIN flatBeams(cs, 1) |-> <<B[flatBeams(cs, 1)[n]].length>>]

\* a call on the constructed lattice that returns value and changes nothing
returned(name, value) ==
    /\ pc = "ready"
    /\ pc' = name
    /\ ret' = [raised |-> FALSE, value |-> value]
    /\ UNCHANGED <<latticeVars, arg>>

getEdgeIndex == returned("getEdgeIndex", getEdgeIndexOf(cells, pointObj, beamObj))

getBeamType == returned("getBeamType", getBeamTypeOf(cells, beamObj))

getAllBeamLength == returned("getAllBeamLength", getAllBeamLengthOf(cells, beamObj))

NextBeamLists ==
    \/ generateLattice
    \/ getMinMaxValues
    \/ defineBeamNodeIndex
    \/ defineCellIndex
    \/ defineCellNeighbours
    \/ setPointLocalTag
    \/ applyTagToAllPoint
    \/ simMethodOff
    \/ getAllAngles
    \/ setBeamNodeMod
    \/ defineNodeIndexBoundary
    \/ simulationPropertiesOff
    \/ deleteDuplicatedBeams
    \/ getEdgeIndex
    \/ getBeamType
    \/ getAllBeamLength

SpecBeamLists == InitDOF /\ [][NextBeamLists]_vars

\* the entries of the beam lists of the cells cs, as (cell, position), and
\* the value of the beam of an entry
beamEntries(cs) == UNION {{<<c, n>> : n \in DOMAIN cs[c].beams} : c \in DOMAIN cs}

beamValue(cs, e) == beamKey(pointObj, beamObj[cs[e[1]].beams[e[2]]])

\* C26: after deleteDuplicatedBeams no two entries of the beam lists of the
\* cells are equal beams, and every beam value of the lists before the call
\* is the value of an entry after it
Cex_C26_NoBeamTwice ==
    [][(pc = "ready" /\ pc' = "deleteDuplicatedBeams")
       => /\ \A e, f \in beamEntries(cells') :
                e # f => beamValue(cells', e) # beamValue(cells', f)
          /\ {beamValue(cells', e) : e \in beamEntries(cells')}
                = {beamValue(cells, e) : e \in beamEntries(cells)}]_vars

\* --------------------------------------------------- the indices in use
\* C27: after every run of the indexing pass the node indices in use are
\* 0..N-1 for the N distinct node coordinates of the lattice, getNumberOfNodes
\* is one more than the largest of them, and the beam indices in use are
\* 0..B-1 for the B distinct beams (distinct by Beam.__eq__)
Cex_C27_ContiguousIndices ==
    pc \in AfterIndexing =>
        /\ {pointObj[i].index : i \in livePoints}
              = 0..(Cardinality({PointHash(pointObj[i]) : i \in livePoints}) - 1)
        /\ getNumberOfNodes(cells, pointObj, beamObj)
              = SetMax({pointObj[i].index : i \in livePoints}) + 1
        /\ {beamObj[r].index : r \in liveBeams}
              = 0..(Cardinality({beamKey(pointObj, beamObj[r]) : r \in liveBeams}) - 1)

\* ------------------------------------------ the neighbours and the angle pass
\* C28: a call of getAllAngles that returns, the one of the constructor or a
\* later one, leaves the neighbour list of every cell as it was: the list
\* still holds at most 6 cells and, without periodicity, not the cell itself
Cex_C28_AnglePassKeepsNeighbours ==
    [][((pc = "simMethod" /\ pc' = "setBeamNodeMod")
        \/ (pc = "ready" /\ pc' = "setBeamNodeModAgain"))
       => \A c \in DOMAIN cells :
             /\ cells'[c].neighbourCells = cells[c].neighbourCells
             /\ Len(cells'[c].neighbourCells) <= 6
             /\ ~cfg.enable_periodicity => c \notin SeqRange(cells'[c].neighbourCells)]_vars

\* ------------------------------------------------- the local order of the tags
\* the rows of the free DOFs of a node in the coupling operators
freeRows(node) == {node.globalFreeDOFIndex[d] : d \in {e \in 1..6 : node.fixedDOF[e] = 0}}

\* C29: the column block that buildCouplingOperator gives to the local tag of
\* a boundary node is the position of the tag in Cell.originalTags, the order
\* of the keys of the dictionary of getNodeOrderToSimulate: on a lattice whose
\* boundary nodes all have a local tag, every cell gets its operator, and the
\* entries of a node are in the columns 6 * position .. 6 * position + 5
Cex_C29_SameLocalOrder ==
    [][(pc = "buildCouplingOperatorForEachCells"
        /\ \A c \in DOMAIN cells : \A i \in boundaryNodesOf(cells[c]) :
              pointObj[i].localTag # <<>>)
       => /\ pc' = "buildLUSchurComplement"
          /\ \A c \in DOMAIN cells : \A i \in boundaryNodesOf(cells[c]) :
                \A e \in SeqRange(cells'[c].matB.entries) :
                    e[1] \in freeRows(pointObj[i])
                        => e[2] \div 6 = IndexOf(originalTags, pointObj[i].localTag[1]) - 1]_vars

\* ------------------------------------------------------ the beam export lists
\* the distinct beams of the lattice: the first entry of each beam value, in
\* the order of the cells and of their beam lists
distinctBeams ==
    SelectSeq([n \in DOMAIN flatBeams(cells, 1) |-> n],
              LAMBDA n : \A k \in 1..(n - 1) :
                  beamKey(pointObj, beamObj[flatBeams(cells, 1)[k]])
                      # beamKey(pointObj, beamObj[flatBeams(cells, 1)[n]]))

\* C30: the lists of getEdgeIndex, getBeamType and getAllBeamLength on one
\* lattice have the same length, the number of distinct beams, and their i-th
\* entries are the node indices, the type and the length of the i-th distinct
\* beam ; each call returns its list
Cex_C30_ParallelExportLists ==
    pc \in {"getEdgeIndex", "getBeamType", "getAllBeamLength"} =>
        LET edgeIndex == getEdgeIndexOf(cells, pointObj, beamObj)
            beamType == getBeamTypeOf(cells, beamObj)
            beamLength == getAllBeamLengthOf(cells, beamObj)
            beam(i) == beamObj[flatBeams(cells, 1)[distinctBeams[i]]]
        IN  /\ ret.value = CASE pc = "getEdgeIndex" -> edgeIndex
                             [] pc = "getBeamType" -> beamType
                             [] pc = "getAllBeamLength" -> beamLength
            /\ Len(edgeIndex) = Len(distinctBeams)
            /\ Len(beamType) = Len(distinctBeams)
            /\ Len(beamLength) = Len(distinctBeams)
            /\ \A i \in DOMAIN distinctBeams :
                  /\ edgeIndex[i] = <<pointObj[beam(i).point1].index,
                                      pointObj[beam(i).point2].index>>
                  /\ beamType[i] = <<beam(i).type>>
                  /\ beamLength[i] = <<beam(i).length>>

====
